---- MODULE Spec2Model ----
(***************************************************************************)
(* A model of the MFSR block engine (src/src/mfsr.rs) and of the image     *)
(* format it works on (src/src/types, src/src/utils.rs, src/src/cli).      *)
(*                                                                         *)
(* The engine state is the struct Mfsr: the in-core superblock, the vector *)
(* of block groups (two bitmaps each), the memory map (inode table and     *)
(* data blocks) and the file-handle counter.  A handler is one action; the *)
(* engine primitives it calls are operators on an engine record e = [sb,   *)
(* groups, inodes, blocks, next_fh, panic], applied in the order of the    *)
(* source.  A handler operator XxxH yields the engine it leaves and the    *)
(* reply it sends; the action Xxx installs that engine in the variables.   *)
(* The reply is not a variable: a property of a reply is stated on the     *)
(* handler operator applied to the current state.                          *)
(*                                                                         *)
(* Panics.  A Rust panic (unwrap on None/Err, index out of bounds,         *)
(* arithmetic overflow in a checked build) ends the mount: panic is        *)
(* sticky, every primitive is the identity after it, and once a handler    *)
(* panicked no request is served.  get_dentry decodes with unwrap, so a    *)
(* table that does not decode is a panic, not an error reply.  Where the   *)
(* outcome depends on the build (overflow checks on or off), the build is  *)
(* an input of the operator.                                               *)
(*                                                                         *)
(* Images.  mkfs as coded fills every bitmap byte with 1                   *)
(* (src/src/cli/mod.rs:38), so that on its image bit 0 of the inode bitmap *)
(* is taken, mount creates no root, and inode 1 reads as an all-zero slot: *)
(* every handler that changes something panics there.  The model mounts    *)
(* either that image or the image of the same geometry whose bitmap bytes  *)
(* are 0, which is the layout the handlers are written for; `image`        *)
(* records which.  Inode table and data blocks of a fresh device are zero. *)
(*                                                                         *)
(* Requests.  The handlers are reached through the kernel only, so Next    *)
(* offers the requests the VFS sends (see the comment before               *)
(* NotDirectory); `calls` counts them and is capped by MaxCalls.           *)
(*                                                                         *)
(* Not modelled: the four timestamps of an inode and the three of the      *)
(* superblock (the model keeps no clock), rdev, the doubly and triply      *)
(* indirect pointers (never written by the source) and the checksums of    *)
(* inode and superblock (never computed nor verified by the source).       *)
(*                                                                         *)
(* Bytes.  A bitmap is the set of its set bit positions byte*8 + bit.  A   *)
(* data block is a record: never written (the device is taken to be zero-  *)
(* filled), file bytes, a pointer array, or chunk `part` of the            *)
(* serialization of a directory-entry table.  bincode and the CRC are not  *)
(* modelled bit by bit: a read of a directory-entry table succeeds exactly *)
(* when the bytes read are the bytes one write_dentry produced.  The slot  *)
(* of a deleted inode is zeroed, since no handler reads a slot whose bit   *)
(* is clear.                                                               *)
(***************************************************************************)
EXTENDS Integers, Sequences, FiniteSets, TLC

\* ----------------------------------------------------------------- bounds
BlockSize == 64
BlockGroupCount == 1
MaxIno == 3
MaxAllocs == 3
MaxFh == 3
MaxCalls == 4

\* ------------------------------------------------------ program constants
DirectPointers == 12
PointerBytes == 4
MAX_NAME_LENGTH == 255
FUSE_ROOT_ID == 1
RootMode == 511
MAX_FILE_SIZE_KIB == 4194304
F_OK == 0
X_OK == 1
W_OK == 2
R_OK == 4
S_ISUID == 2048
S_ISGID == 1024
S_ISVTX == 512
S_IXUSR == 64
S_IXGRP == 8
S_IXOTH == 1
O_RDONLY == 0
O_WRONLY == 1
O_RDWR == 2
O_ACCMODE == 3
O_TRUNC == 512
FMODE_EXEC == 32
RENAME_EXCHANGE == 2
PrefixBytes == 8
DentryFixedBytes == 20
EntryFixedBytes == 16

\* ------------------------------------------------------------- bit algebra
RECURSIVE BitAnd(_, _)
BitAnd(a, b) ==
    IF a = 0 \/ b = 0 THEN 0
    ELSE (a % 2) * (b % 2) + 2 * BitAnd(a \div 2, b \div 2)

BitClear(a, b) == a - BitAnd(a, b)

BitOr(a, b) == a + b - BitAnd(a, b)

Shr(a, n) == a \div (2 ^ n)

CeilDiv(a, b) == (a + b - 1) \div b

\* ------------------------------------------------------------ the records
Builds == {"debug", "release"}

BitmapBits == BlockSize * 8

PointersPerBlock == BlockSize \div PointerBytes

MaxBlock == MaxAllocs + 5

InoIds == 1 .. MaxIno

BlockIds == 1 .. MaxBlock

NoEntries == [n \in {} |-> 0]

NoDentry == [inode_id |-> 0, entries |-> NoEntries]

ZeroBlock == [kind |-> "zero", d |-> NoDentry, part |-> 0, p |-> <<>>, bytes |-> <<>>]

DentryBlock(d, i) == [kind |-> "dentry", d |-> d, part |-> i, p |-> <<>>, bytes |-> <<>>]

PtrBlock(p) == [kind |-> "ptrs", d |-> NoDentry, part |-> 0, p |-> p, bytes |-> <<>>]

DataBlock(bytes) == [kind |-> "data", d |-> NoDentry, part |-> 0, p |-> <<>>, bytes |-> bytes]

ZeroPointers == [i \in 1 .. DirectPointers |-> 0]

\* types/inode.rs: what bincode reads from a slot of the inode table that was
\* never written, on a zero-filled device (variant 0 of fuser::FileType).
ZeroInode ==
    [id |-> 0, size |-> 0, kind |-> "NamedPipe", mode |-> 0, hard_links |-> 0,
     uid |-> 0, gid |-> 0, block_count |-> 0, flags |-> 0,
     direct_pointers |-> ZeroPointers, indirect_pointer |-> 0]

InodeNew(id, kind, mode, uid, gid, flags) ==
    [id |-> id, size |-> 0, kind |-> kind, mode |-> mode, hard_links |-> 1,
     uid |-> uid, gid |-> gid, block_count |-> 0, flags |-> flags,
     direct_pointers |-> ZeroPointers, indirect_pointer |-> 0]

InodeClearSuidSgid(inode) ==
    LET m1 == BitClear(inode.mode, S_ISUID)
        m2 == IF BitAnd(m1, S_IXGRP) # 0 THEN BitClear(m1, S_ISGID) ELSE m1
    IN [inode EXCEPT !.mode = m2]

DirectoryEntryNew(id) == [inode_id |-> id, entries |-> NoEntries]

EntriesInsert(entries, name, id) == (name :> id) @@ entries

EntriesRemove(entries, name) == [n \in (DOMAIN entries) \ {name} |-> entries[n]]

NameLen(name) == Len(name)

RECURSIVE SumNameBytes(_)
SumNameBytes(S) ==
    IF S = {} THEN 0
    ELSE LET n == CHOOSE x \in S : TRUE
         IN EntryFixedBytes + NameLen(n) + SumNameBytes(S \ {n})

\* bincode::serialized_size of a DirectoryEntry: u64 inode_id, u64 map
\* length, per entry a u64 string length, the name and a u64 id, u32 checksum.
SerializedSize(d) == DentryFixedBytes + SumNameBytes(DOMAIN d.entries)

\* the buffer of serialize_into: the 8-byte length prefix, then the record
DentryBufLen(d) == PrefixBytes + SerializedSize(d)

SuperBlockNew(block_size, block_group_count) ==
    LET block_count == block_size * 8 * block_group_count
    IN [block_size |-> block_size, block_count |-> block_count,
        inode_count |-> block_count, free_blocks |-> block_count,
        free_inodes |-> block_count, block_group_count |-> block_group_count]

BlockGroupNew(data_bitmap, inode_bitmap) ==
    [data_bitmap |-> data_bitmap, inode_bitmap |-> inode_bitmap]

\* ------------------------------------------------------- engine primitives
\* The struct Mfsr while a handler runs.  panic: the handler has panicked.
Engine(sb, groups, inodes, blocks, fh) ==
    [sb |-> sb, groups |-> groups, inodes |-> inodes, blocks |-> blocks,
     next_fh |-> fh, panic |-> FALSE]

Panic(e) == [e EXCEPT !.panic = TRUE]

\* An index a wrapped unsigned subtraction yields: past the end of any bitmap.
WrappedIndex == BitmapBits

\* (group, byte, bit) of an inode id.  underflow: (inode_id - 1) - group * B is
\* negative in u64: a panic with overflow checks, a wrapped index without.
InodeBitmapOffset(sb, inode_id) ==
    LET group_offset == inode_id \div sb.block_size
        raw == (inode_id - 1) - group_offset * sb.block_size
        underflow == inode_id = 0 \/ raw < 0
    IN [group |-> group_offset,
        byte |-> IF underflow THEN WrappedIndex ELSE raw \div 8,
        bit |-> (inode_id - 1) % 8,
        underflow |-> underflow]

DataBlockBitmapOffset(sb, block_id) ==
    LET group_offset == block_id \div sb.block_size
        raw == (block_id - 1) - group_offset * sb.block_size
        underflow == block_id = 0 \/ raw < 0
    IN [group |-> group_offset,
        byte |-> IF underflow THEN WrappedIndex ELSE raw \div 8,
        bit |-> (block_id - 1) % 8,
        underflow |-> underflow]

BitPos(off) == off.byte * 8 + off.bit

\* Indexing group.xxx_bitmap[byte] of block_groups[group] panics
OffsetPanics(e, off) ==
    \/ off.underflow
    \/ off.group >= e.sb.block_group_count
    \/ off.byte >= e.sb.block_size

\* inode_exists under one build: [panic, val]
InodeExistsIn(e, inode_id, build) ==
    LET off == InodeBitmapOffset(e.sb, inode_id)
    IN IF off.underflow /\ build = "debug" THEN [panic |-> TRUE, val |-> FALSE]
       ELSE IF off.group >= e.sb.block_group_count THEN [panic |-> TRUE, val |-> FALSE]
       ELSE IF off.byte >= e.sb.block_size THEN [panic |-> FALSE, val |-> FALSE]
       ELSE [panic |-> FALSE, val |-> BitPos(off) \in e.groups[off.group].inode_bitmap]

\* inode_exists for the ids a handler passes (1 <= id, id not a multiple of
\* the block size, group in range): the builds agree
InodeExists(e, inode_id) == InodeExistsIn(e, inode_id, "release").val

InodeAt(e, inode_id) ==
    IF inode_id \in DOMAIN e.inodes THEN e.inodes[inode_id] ELSE ZeroInode

\* get_inode: [some, inode]
GetInode(e, inode_id) ==
    IF InodeExists(e, inode_id)
    THEN [some |-> TRUE, inode |-> InodeAt(e, inode_id)]
    ELSE [some |-> FALSE, inode |-> ZeroInode]

WriteInode(e, inode) ==
    LET off == InodeBitmapOffset(e.sb, inode.id)
        creation == BitPos(off) \notin e.groups[off.group].inode_bitmap
    IN IF e.panic THEN e
       ELSE IF OffsetPanics(e, off) \/ inode.id \notin DOMAIN e.inodes THEN Panic(e)
       ELSE [e EXCEPT !.groups[off.group].inode_bitmap = @ \cup {BitPos(off)},
                      !.inodes[inode.id] = inode,
                      !.sb.free_inodes = IF creation THEN @ - 1 ELSE @]

\* first zero bit of a bitmap from position pos on (bytes in order, bits from
\* the low one), or -1
RECURSIVE FirstZeroFrom(_, _)
FirstZeroFrom(bitmap, pos) ==
    IF pos >= BitmapBits THEN 0 - 1
    ELSE IF pos \notin bitmap THEN pos
    ELSE FirstZeroFrom(bitmap, pos + 1)

FirstZero(bitmap) == FirstZeroFrom(bitmap, 0)

RECURSIVE ScanInodes(_, _)
ScanInodes(e, g) ==
    IF g >= e.sb.block_group_count THEN 0
    ELSE LET pos == FirstZero(e.groups[g].inode_bitmap)
         IN IF pos >= 0 THEN g * e.sb.block_size + pos + 1
            ELSE ScanInodes(e, g + 1)

NextInodeId(e) == ScanInodes(e, 0)

RECURSIVE ScanData(_, _)
ScanData(e, g) ==
    IF g >= e.sb.block_group_count THEN 0
    ELSE LET pos == FirstZero(e.groups[g].data_bitmap)
         IN IF pos >= 0 THEN g * e.sb.block_size + pos + 1
            ELSE ScanData(e, g + 1)

NextFreeDataBlock(e) == ScanData(e, 0)

\* ----------------------------------------------------------- data blocks
NotData == 0 - 1

ZeroBytes(n) == [i \in 1 .. n |-> 0]

ZeroPointerArray == [i \in 1 .. PointersPerBlock |-> 0]

\* pointer_to_bytes of every pointer of an array (little-endian, ids < 256)
PointerBytesOf(p) ==
    [i \in 1 .. (Len(p) * PointerBytes) |->
        IF (i - 1) % PointerBytes = 0 THEN p[((i - 1) \div PointerBytes) + 1] ELSE 0]

\* the block as block_size bytes; NotData stands for a byte of a serialized
\* directory-entry table
BytesOf(blk) ==
    CASE blk.kind = "data" -> blk.bytes
      [] blk.kind = "ptrs" ->
            PointerBytesOf(blk.p) \o ZeroBytes(BlockSize - Len(blk.p) * PointerBytes)
      [] blk.kind = "dentry" -> [i \in 1 .. BlockSize |-> NotData]
      [] OTHER -> ZeroBytes(BlockSize)

BlockAt(e, block_id) ==
    IF block_id \in DOMAIN e.blocks THEN e.blocks[block_id] ELSE ZeroBlock

\* what the block holds after buf was written at its start (write_all writes
\* Len(buf) bytes and leaves the rest of the block as it was)
Overlay(old, buf) ==
    IF buf.kind = "data"
    THEN DataBlock(buf.bytes \o SubSeq(BytesOf(old), Len(buf.bytes) + 1, BlockSize))
    ELSE buf

\* write_data: the bytes, then the data-bitmap bit.  Block id 0 (what a full
\* bitmap makes next_free_data_block return) has no bitmap bit: a panic.
WriteData(e, block_id, buf) ==
    LET off == DataBlockBitmapOffset(e.sb, block_id)
    IN IF e.panic THEN e
       ELSE IF OffsetPanics(e, off) \/ block_id \notin DOMAIN e.blocks THEN Panic(e)
       ELSE [e EXCEPT !.blocks[block_id] = Overlay(@, buf),
                      !.groups[off.group].data_bitmap = @ \cup {BitPos(off)}]

\* read_data of one whole block: [panic, bytes].  Block id 0: (0 - 1) in u32
\* panics with overflow checks; without, the address wraps to the last
\* block_size bytes of group 0's inode table, slots no id below block_size
\* uses: zero bytes.
ReadData(e, block_id, build) ==
    IF block_id = 0
    THEN IF build = "debug" THEN [panic |-> TRUE, blk |-> ZeroBlock]
         ELSE [panic |-> FALSE, blk |-> ZeroBlock]
    ELSE IF block_id \notin DOMAIN e.blocks THEN [panic |-> TRUE, blk |-> ZeroBlock]
    ELSE [panic |-> FALSE, blk |-> e.blocks[block_id]]

\* the pointer array a block decodes to (bytes_to_pointer on every 4 bytes):
\* [wild, p].  wild: the bytes were not written as a pointer array, so the
\* ids they decode to are no block of this image.
PointersOf(blk) ==
    CASE blk.kind = "ptrs" -> [wild |-> FALSE, p |-> blk.p]
      [] blk.kind = "zero" -> [wild |-> FALSE, p |-> ZeroPointerArray]
      [] blk.kind = "data" /\ (\A i \in 1 .. Len(blk.bytes) : blk.bytes[i] = 0) ->
            [wild |-> FALSE, p |-> ZeroPointerArray]
      [] OTHER -> [wild |-> TRUE, p |-> ZeroPointerArray]

\* read_indirect_pointer(..).unwrap(): [panic, p].  Its callers pass a
\* non-zero pointer, for which the builds agree.
ReadIndirectPointer(e, indirect_pointer, build) ==
    LET r == ReadData(e, indirect_pointer, build)
        q == PointersOf(r.blk)
    IN [panic |-> r.panic \/ q.wild, p |-> q.p]

\* ------------------------------------------------- directory-entry tables
NonZeroCount(pointers) == Cardinality({i \in DOMAIN pointers : pointers[i] # 0})

\* The first read_exact of get_dentry returns the serialization of d when the
\* `need` blocks that follow direct_pointers[0] in the map hold its chunks.
ChunksInPlace(e, first, d, need) ==
    \A j \in 0 .. (need - 1) :
        LET blk == BlockAt(e, first + j)
        IN blk.kind = "dentry" /\ blk.d = d /\ blk.part = j

\* get_dentry: [panic, d].  It seeks to the block of direct_pointers[0],
\* reads the length prefix and then, once per non-zero direct pointer, the
\* next len bytes of the map into the same buffer; the last read is decoded
\* and unwrapped.  direct_pointers[0] = 0, a block that does not start with
\* a length prefix and its table, and a second non-zero pointer (the bytes
\* decoded are the ones after the table) all end in the unwrap of an Err.
\* (No name length of this model makes the table a multiple of the block
\* size, the one case where the bytes after it could be another table.)
GetDentry(e, inode) ==
    LET first == inode.direct_pointers[1]
        blk == BlockAt(e, first)
    IN IF first = 0 \/ blk.kind # "dentry" \/ blk.part # 0
       THEN [panic |-> TRUE, d |-> NoDentry]
       ELSE IF NonZeroCount(inode.direct_pointers) # 1
       THEN [panic |-> TRUE, d |-> NoDentry]
       ELSE IF ~ChunksInPlace(e, first, blk.d, CeilDiv(DentryBufLen(blk.d), e.sb.block_size))
       THEN [panic |-> TRUE, d |-> NoDentry]
       ELSE [panic |-> FALSE, d |-> blk.d]

\* write_dentry, chunk i of n onwards: [e, inode]
RECURSIVE WriteDentryFrom(_, _, _, _, _)
WriteDentryFrom(e, inode, d, i, n) ==
    IF e.panic \/ i >= n THEN [e |-> e, inode |-> inode]
    ELSE IF i >= DirectPointers THEN [e |-> Panic(e), inode |-> inode]
    ELSE LET fresh == inode.direct_pointers[i + 1] = 0
             block_id == IF fresh THEN NextFreeDataBlock(e)
                         ELSE inode.direct_pointers[i + 1]
             e1 == IF fresh THEN [e EXCEPT !.sb.block_count = @ + 1] ELSE e
             inode1 == [inode EXCEPT
                          !.block_count = IF fresh THEN @ + 1 ELSE @,
                          !.direct_pointers[i + 1] = block_id]
             e2 == WriteData(e1, block_id, DentryBlock(d, i))
         IN WriteDentryFrom(e2, inode1, d, i + 1, n)

WriteDentry(e, inode, d) ==
    WriteDentryFrom(e, inode, d, 0, CeilDiv(DentryBufLen(d), e.sb.block_size))

\* write_inode of the inode a write_dentry handed back
StoreInode(s) == WriteInode(s.e, s.inode)

\* the table g a get_dentry returned, with name bound to id, written back by
\* write_dentry: [e, inode]
InsertEntry(e, inode, g, name, id) ==
    IF e.panic THEN [e |-> e, inode |-> inode]
    ELSE IF g.panic THEN [e |-> Panic(e), inode |-> inode]
    ELSE WriteDentry(e, inode, [g.d EXCEPT !.entries = EntriesInsert(@, name, id)])

\* the table g a get_dentry returned, without name, written back: [e, inode]
RemoveEntry(e, inode, g, name) ==
    IF e.panic THEN [e |-> e, inode |-> inode]
    ELSE IF g.panic THEN [e |-> Panic(e), inode |-> inode]
    ELSE WriteDentry(e, inode, [g.d EXCEPT !.entries = EntriesRemove(@, name)])

\* get_dentry(inode), entries.insert(name, id), write_dentry(inode): [e, inode]
PutEntry(e, inode, name, id) == InsertEntry(e, inode, GetDentry(e, inode), name, id)

\* get_dentry(inode), entries.remove(name), write_dentry(inode): [e, inode]
DropEntry(e, inode, name) == RemoveEntry(e, inode, GetDentry(e, inode), name)

\* a get_dentry whose table is then dropped
ProbeDentry(e, inode) ==
    IF e.panic THEN e
    ELSE IF GetDentry(e, inode).panic THEN Panic(e)
    ELSE e

\* lookup_inode: [panic, some, inode]
LookupInode(e, parent_id, name) ==
    LET p == GetInode(e, parent_id)
        Find(g) ==
            IF g.panic THEN [panic |-> TRUE, some |-> FALSE, inode |-> ZeroInode]
            ELSE IF name \notin DOMAIN g.d.entries
            THEN [panic |-> FALSE, some |-> FALSE, inode |-> ZeroInode]
            ELSE [panic |-> FALSE,
                  some |-> GetInode(e, g.d.entries[name]).some,
                  inode |-> GetInode(e, g.d.entries[name]).inode]
    IN IF ~p.some THEN [panic |-> FALSE, some |-> FALSE, inode |-> ZeroInode]
       ELSE Find(GetDentry(e, p.inode))

\* an access check that permits exactly the mask equal to the owner's bits
CheckAccessExact(inode_uid, inode_gid, file_mode, uid, gid, access_mask) ==
    access_mask = BitAnd(Shr(file_mode, 6), 7)

\* an access check that judges every caller by the owner's triple
CheckAccessAsOwner(inode_uid, inode_gid, file_mode, uid, gid, access_mask) ==
    access_mask - BitAnd(access_mask, Shr(file_mode, 6)) = 0

\* ------------------------------------------------------------ access check
CheckAccess(inode_uid, inode_gid, file_mode, uid, gid, access_mask) ==
    IF access_mask = F_OK THEN TRUE
    ELSE IF uid = 0
    THEN LET m0 == BitAnd(access_mask, X_OK)
             m1 == m0 - BitAnd(m0, Shr(file_mode, 6))
             m2 == m1 - BitAnd(m1, Shr(file_mode, 3))
             m3 == m2 - BitAnd(m2, file_mode)
         IN m3 = 0
    ELSE IF uid = inode_uid
    THEN access_mask - BitAnd(access_mask, Shr(file_mode, 6)) = 0
    ELSE IF gid = inode_gid
    THEN access_mask - BitAnd(access_mask, Shr(file_mode, 3)) = 0
    ELSE access_mask - BitAnd(access_mask, file_mode) = 0

\* -------------------------------------------------- delete, truncate, grow
ClearDataBit(e, off) ==
    IF e.panic THEN e
    ELSE IF OffsetPanics(e, off) THEN Panic(e)
    ELSE [e EXCEPT !.groups[off.group].data_bitmap = @ \ {BitPos(off)}]

RECURSIVE ClearDirect(_, _, _)
ClearDirect(e, pointers, i) ==
    IF i > Len(pointers) THEN e
    ELSE IF pointers[i] = 0 THEN ClearDirect(e, pointers, i + 1)
    ELSE ClearDirect(ClearDataBit(e, DataBlockBitmapOffset(e.sb, pointers[i])),
                     pointers, i + 1)

\* delete_inode.  The source leaves the bytes of the slot in the inode table;
\* get_inode reads a slot only when its bit is set and write_inode sets the bit
\* and the bytes together, so no handler sees them again: the model zeroes
\* them.
DeleteInode(e, inode_id) ==
    LET g == GetInode(e, inode_id)
        inode == g.inode
        off == InodeBitmapOffset(e.sb, inode_id)
        e1 == [e EXCEPT !.groups[off.group].inode_bitmap = @ \ {BitPos(off)},
                        !.sb.free_inodes = @ + 1,
                        !.inodes[inode_id] = ZeroInode]
        Indirect(e2) ==
            LET r == ReadIndirectPointer(e2, inode.indirect_pointer, "release")
            IN IF inode.indirect_pointer = 0 \/ e2.panic THEN e2
               ELSE IF r.panic THEN Panic(e2)
               ELSE IF \E i \in DOMAIN r.p : r.p[i] # 0
               THEN [e2 EXCEPT !.groups[off.group].data_bitmap = @ \ {BitPos(off)}]
               ELSE e2
    IN IF e.panic THEN e
       ELSE IF ~g.some THEN Panic(e)
       ELSE Indirect(ClearDirect(e1, inode.direct_pointers, 1))

\* size > MAX_FILE_SIZE (4 GiB), computed in KiB
SizeTooBig(size) ==
    \/ size \div 1024 > MAX_FILE_SIZE_KIB
    \/ size \div 1024 = MAX_FILE_SIZE_KIB /\ size % 1024 > 0

\* truncate_inode: [e, inode, err]
TruncateInode(e, inode, size, uid, gid) ==
    IF SizeTooBig(size) THEN [e |-> e, inode |-> inode, err |-> "EFBIG"]
    ELSE IF ~CheckAccess(inode.uid, inode.gid, inode.mode, uid, gid, W_OK)
    THEN [e |-> e, inode |-> inode, err |-> "EACCES"]
    ELSE LET inode1 == InodeClearSuidSgid([inode EXCEPT !.size = size])
         IN [e |-> WriteInode(e, inode1), inode |-> inode1, err |-> "OK"]

\* write_indirect_pointer while inode.indirect_pointer is 0: the block of
\* pointers is allocated, zeroed and recorded in the stored inode: [e, inode]
AllocIndirectBlock(e, inode) ==
    LET indirect_block_id == NextFreeDataBlock(e)
        inode_a == [inode EXCEPT !.indirect_pointer = indirect_block_id]
        Count(eb) ==
            IF eb.panic THEN eb
            ELSE [eb EXCEPT !.sb.block_count = @ + 1, !.sb.free_blocks = @ - 1]
    IN IF e.panic \/ inode.indirect_pointer # 0 THEN [e |-> e, inode |-> inode]
       ELSE [e |-> Count(WriteInode(WriteData(e, indirect_block_id,
                                              PtrBlock(ZeroPointerArray)), inode_a)),
             inode |-> [inode_a EXCEPT !.block_count = @ + 1]]

\* write_indirect_pointer once the block of pointers r exists: the data block
\* of slot offset is allocated if the slot is 0, buf written to it and the
\* block of pointers written back: [e, inode]
WriteIndirectSlot(s, r, offset, buf) ==
    LET pointer == r.p[offset + 1]
        fresh == pointer = 0
        block_id == IF fresh THEN NextFreeDataBlock(s.e) ELSE pointer
        e2 == IF fresh
              THEN [s.e EXCEPT !.sb.block_count = @ + 1, !.sb.free_blocks = @ - 1]
              ELSE s.e
        inode2 == IF fresh THEN [s.inode EXCEPT !.block_count = @ + 1] ELSE s.inode
    IN IF s.e.panic THEN s
       ELSE IF r.panic \/ offset + 1 \notin DOMAIN r.p
       THEN [e |-> Panic(s.e), inode |-> s.inode]
       ELSE [e |-> WriteData(WriteData(e2, block_id, buf), s.inode.indirect_pointer,
                             PtrBlock([r.p EXCEPT ![offset + 1] = block_id])),
             inode |-> inode2]

\* write_indirect_pointer: [e, inode]
WriteIndirectPointer(e, inode, offset, buf) ==
    LET Slot(s) ==
            WriteIndirectSlot(s, ReadIndirectPointer(s.e, s.inode.indirect_pointer,
                                                     "release"),
                              offset, buf)
    IN Slot(AllocIndirectBlock(e, inode))

\* -------------------------------------------------------------- handlers
\* What a handler leaves: the engine and the reply (err = "OK" or the errno;
\* attr, fh, data: the payload of an entry/attr, open/create, data/directory
\* reply).  e.panic: the handler panicked and nothing was replied.
NoHandle == [n |-> 0, read |-> FALSE, write |-> FALSE]

Reply(e, err) ==
    [e |-> e, err |-> err, attr |-> ZeroInode, fh |-> NoHandle, data |-> <<>>]

ReplyAttr(e, inode) == [Reply(e, "OK") EXCEPT !.attr = inode]

Panicked(e) == Reply(Panic(e), "PANIC")

\* the handler that started on e0 ends on e1: reply.ok()
Ok(e0, e1) == IF e1.panic THEN Panicked(e0) ELSE Reply(e1, "OK")

\* the same with reply.entry or reply.attr of inode
OkAttr(e0, e1, inode) == IF e1.panic THEN Panicked(e0) ELSE ReplyAttr(e1, inode)

\* the same with reply.attr of the inode get_inode(ino) reads back
OkStored(e0, e1, ino) ==
    IF e1.panic THEN Panicked(e0) ELSE ReplyAttr(e1, GetInode(e1, ino).inode)
\* a get_next_file_handle that hands out the counter without advancing it
GetNextFileHandleStale(e, read, write) ==
    [e |-> e, fh |-> [n |-> e.next_fh, read |-> read, write |-> write]]

\* get_next_file_handle: [e, fh].  The assert on the two permission bits
\* cannot fail below 2^62 handles.
GetNextFileHandle(e, read, write) ==
    [e |-> [e EXCEPT !.next_fh = @ + 1],
     fh |-> [n |-> e.next_fh + 1, read |-> read, write |-> write]]

\* a handle check that lets every handle through
HandleAlwaysPermits(fh) == TRUE

CheckFileHandleWrite(fh) == fh.write

CheckFileHandleRead(fh) == fh.read
\* a parse_flags that permits reading and writing whatever the access mode
ParseFlagsBoth(flags) == [err |-> "OK", mask |-> R_OK, read |-> TRUE, write |-> TRUE]

\* parse_flags: [err, mask, read, write]
ParseFlags(flags) ==
    LET acc == BitAnd(flags, O_ACCMODE)
    IN CASE acc = O_RDONLY ->
              IF BitAnd(flags, O_TRUNC) # 0
              THEN [err |-> "EACCES", mask |-> 0, read |-> FALSE, write |-> FALSE]
              ELSE IF BitAnd(flags, FMODE_EXEC) # 0
              THEN [err |-> "OK", mask |-> X_OK, read |-> TRUE, write |-> FALSE]
              ELSE [err |-> "OK", mask |-> R_OK, read |-> TRUE, write |-> FALSE]
         [] acc = O_WRONLY -> [err |-> "OK", mask |-> W_OK, read |-> FALSE, write |-> TRUE]
         [] acc = O_RDWR -> [err |-> "OK", mask |-> R_OK + W_OK, read |-> TRUE, write |-> TRUE]
         [] OTHER -> [err |-> "EINVAL", mask |-> 0, read |-> FALSE, write |-> FALSE]

Sticky(mode) == BitAnd(mode, S_ISVTX) # 0
\* a write check that lets every caller through
MayWriteAlways(inode, req) == TRUE

MayWrite(inode, req) ==
    CheckAccess(inode.uid, inode.gid, inode.mode, req.uid, req.gid, W_OK)

LookupH(e, parent, name) ==
    LET Found(l) ==
            IF l.panic THEN Panicked(e)
            ELSE IF l.some THEN ReplyAttr(e, l.inode)
            ELSE Reply(e, "ENOENT")
    IN IF NameLen(name) > MAX_NAME_LENGTH THEN Reply(e, "ENAMETOOLONG")
       ELSE Found(LookupInode(e, parent, name))

GetattrH(e, ino) ==
    LET g == GetInode(e, ino)
    IN IF g.some THEN ReplyAttr(e, g.inode) ELSE Reply(e, "ENOENT")

CreateH(e, req, parent, name, mode, flags) ==
    LET acc == BitAnd(flags, O_ACCMODE)
        parent_inode == GetInode(e, parent).inode
        mode1 == IF req.uid # 0 THEN BitClear(mode, S_ISUID + S_ISGID) ELSE mode
        new_inode == InodeNew(NextInodeId(e), "RegularFile", mode1, req.uid, req.gid, flags)
        Opened(e2) ==
            LET h == GetNextFileHandle(e2, acc # O_WRONLY, acc # O_RDONLY)
            IN IF e2.panic THEN Panicked(e)
               ELSE [ReplyAttr(h.e, new_inode) EXCEPT !.fh = h.fh]
        Checked(l) ==
            IF l.panic THEN Panicked(e)
            ELSE IF l.some THEN Reply(e, "EEXIST")
            ELSE IF acc \notin {O_RDONLY, O_WRONLY, O_RDWR} THEN Reply(e, "EINVAL")
            ELSE IF ~MayWrite(parent_inode, req) THEN Reply(e, "EACCES")
            ELSE Opened(WriteInode(StoreInode(PutEntry(e, parent_inode, name,
                                                       new_inode.id)),
                                   new_inode))
    IN IF ~InodeExists(e, parent) THEN Reply(e, "ENOENT")
       ELSE Checked(LookupInode(e, parent, name))

MkdirH(e, req, parent, name, mode) ==
    LET parent_inode == GetInode(e, parent).inode
        mode1 == IF req.uid # 0 THEN BitClear(mode, S_ISUID + S_ISGID) ELSE mode
        mode2 == IF BitAnd(parent_inode.mode, S_ISGID) # 0 THEN BitOr(mode1, S_ISGID) ELSE mode1
        new0 == InodeNew(NextInodeId(e), "Directory", mode2, req.uid, req.gid, 0)
        new_inode == [new0 EXCEPT !.hard_links = 2]
        Made(w1) ==
            OkAttr(e,
                   WriteInode(StoreInode(InsertEntry(w1.e, parent_inode,
                                                     GetDentry(e, parent_inode),
                                                     name, new_inode.id)),
                              w1.inode),
                   w1.inode)
        Checked(l) ==
            IF l.panic THEN Panicked(e)
            ELSE IF l.some THEN Reply(e, "EEXIST")
            ELSE IF ~MayWrite(parent_inode, req) THEN Reply(e, "EACCES")
            ELSE Made(WriteDentry(e, new_inode, DirectoryEntryNew(new_inode.id)))
    IN IF ~InodeExists(e, parent) THEN Reply(e, "ENOENT")
       ELSE Checked(LookupInode(e, parent, name))

UnlinkH(e, req, parent, name) ==
    LET p == GetInode(e, parent)
        parent_inode == p.inode
        Found(l) ==
            IF l.panic THEN Panicked(e)
            ELSE IF ~l.some THEN Reply(e, "ENOENT")
            ELSE Ok(e, StoreInode(DropEntry(DeleteInode(e, l.inode.id), parent_inode,
                                            name)))
    IN IF ~p.some THEN Reply(e, "ENOENT")
       ELSE IF ~MayWrite(parent_inode, req) THEN Reply(e, "EACCES")
       ELSE IF /\ Sticky(parent_inode.mode)
               /\ req.uid # 0
               /\ req.uid # parent_inode.uid
               /\ req.uid # parent_inode.uid
       THEN Reply(e, "EACCES")
       ELSE Found(LookupInode(e, parent, name))

RmdirH(e, req, parent, name) ==
    LET p == GetInode(e, parent)
        parent_inode == p.inode
        Removed(inode) ==
            DropEntry(DeleteInode(WriteInode(WriteInode(e, parent_inode),
                                             [inode EXCEPT !.hard_links = 0]),
                                  inode.id),
                      parent_inode, name)
        Listed(inode, own) ==
            IF own.panic THEN Panicked(e)
            ELSE IF Cardinality(DOMAIN own.d.entries) > 2 THEN Reply(e, "ENOTEMPTY")
            ELSE IF ~MayWrite(parent_inode, req) THEN Reply(e, "EACCES")
            ELSE IF /\ Sticky(parent_inode.mode)
                    /\ req.uid # 0
                    /\ req.uid # parent_inode.uid
                    /\ req.uid # inode.uid
            THEN Reply(e, "EACCES")
            ELSE Ok(e, Removed(inode).e)
        Found(l) ==
            IF l.panic THEN Panicked(e)
            ELSE IF ~l.some THEN Reply(e, "ENOENT")
            ELSE IF ~p.some THEN Reply(e, "ENOENT")
            ELSE Listed(l.inode, GetDentry(e, l.inode))
    IN Found(LookupInode(e, parent, name))

\* one pass of the loop of write, on logical block k: [e, inode, written, err]
WriteChunk(s, k, chunk) ==
    LET fresh == s.inode.direct_pointers[k + 1] = 0
        block_id == IF fresh THEN NextFreeDataBlock(s.e) ELSE s.inode.direct_pointers[k + 1]
        e1 == IF fresh
              THEN [s.e EXCEPT !.sb.block_count = @ + 1, !.sb.free_blocks = @ - 1]
              ELSE s.e
        inode1 == [s.inode EXCEPT !.block_count = IF fresh THEN @ + 1 ELSE @,
                                  !.direct_pointers[k + 1] = block_id]
        Indirect(w) ==
            [e |-> w.e, inode |-> w.inode, written |-> s.written + Len(chunk),
             err |-> "OK"]
    IN IF k < DirectPointers
       THEN [e |-> WriteData(e1, block_id, DataBlock(chunk)), inode |-> inode1,
             written |-> s.written + Len(chunk), err |-> "OK"]
       ELSE IF k < (s.e.sb.block_size \div PointerBytes) + DirectPointers
       THEN Indirect(WriteIndirectPointer(s.e, s.inode, k - DirectPointers,
                                          DataBlock(chunk)))
       ELSE [s EXCEPT !.err = "EFBIG"]

\* the chunks of write, chunk i onwards: [e, inode, written, err]
RECURSIVE WriteChunks(_, _, _, _)
WriteChunks(s, start_block, data, i) ==
    LET bs == s.e.sb.block_size
        last == IF (i + 1) * bs < Len(data) THEN (i + 1) * bs ELSE Len(data)
    IN IF s.e.panic \/ s.err # "OK" \/ i * bs >= Len(data) THEN s
       ELSE WriteChunks(WriteChunk(s, i + start_block, SubSeq(data, i * bs + 1, last)),
                        start_block, data, i + 1)

WriteH(e, ino, fh, offset, data) ==
    LET g == GetInode(e, ino)
        Wrote(c) ==
            LET new_size == offset + c.written
                inode1 == [c.inode EXCEPT !.size = IF new_size > @ THEN new_size ELSE @]
                Stored(e1) ==
                    IF e1.panic THEN Panicked(e)
                    ELSE [Reply(e1, "OK") EXCEPT !.data = <<c.written>>]
            IN IF c.e.panic THEN Panicked(e)
               ELSE IF c.err # "OK" THEN Reply(c.e, c.err)
               ELSE Stored(WriteInode(c.e, InodeClearSuidSgid(inode1)))
    IN IF ~CheckFileHandleWrite(fh) THEN Reply(e, "EACCES")
       ELSE IF ~g.some THEN Reply(e, "ENOENT")
       ELSE Wrote(WriteChunks([e |-> e, inode |-> g.inode, written |-> 0, err |-> "OK"],
                              offset \div e.sb.block_size, data, 0))

\* the blocks of read, logical block i up to end_block: [panic, bytes]
RECURSIVE ReadBlocks(_, _, _, _, _, _)
ReadBlocks(e, inode, i, end_block, build, acc) ==
    LET direct == ReadData(e, inode.direct_pointers[i + 1], build)
        ind == ReadData(e, inode.indirect_pointer, build)
        q == PointersOf(ind.blk)
        child == ReadData(e, q.p[i - DirectPointers + 1], build)
    IN IF i > end_block THEN [panic |-> FALSE, bytes |-> acc]
       ELSE IF i < DirectPointers
       THEN IF direct.panic THEN [panic |-> TRUE, bytes |-> acc]
            ELSE ReadBlocks(e, inode, i + 1, end_block, build, acc \o BytesOf(direct.blk))
       ELSE IF i < e.sb.block_size
       THEN IF ind.panic \/ q.wild \/ i - DirectPointers + 1 \notin DOMAIN q.p
            THEN [panic |-> TRUE, bytes |-> acc]
            ELSE IF child.panic THEN [panic |-> TRUE, bytes |-> acc]
            ELSE ReadBlocks(e, inode, i + 1, end_block, build, acc \o BytesOf(child.blk))
       ELSE ReadBlocks(e, inode, i + 1, end_block, build, acc)

\* Rust's integer division truncates towards zero
TruncDiv(a, b) == IF a < 0 THEN 0 - ((0 - a) \div b) ELSE a \div b

ReadH(e, ino, fh, offset, size, build) ==
    LET g == GetInode(e, ino)
        start_block == offset \div e.sb.block_size
        end_block == TruncDiv(offset + size - 1, e.sb.block_size)
        Got(r, e1) ==
            IF r.panic \/ e1.panic THEN Panicked(e)
            ELSE [Reply(e1, "OK") EXCEPT !.data = r.bytes]
    IN IF ~CheckFileHandleRead(fh) THEN Reply(e, "EACCES")
       ELSE IF ~g.some THEN Reply(e, "ENOENT")
       ELSE Got(ReadBlocks(e, g.inode, start_block, end_block, build, <<>>),
                WriteInode(e, g.inode))

OpenH(e, req, ino, flags) ==
    LET f == ParseFlags(flags)
        g == GetInode(e, ino)
        i == g.inode
        h == GetNextFileHandle([e EXCEPT !.next_fh = @ + 1], f.read, f.write)
    IN IF f.err # "OK" THEN Reply(e, f.err)
       ELSE IF ~g.some THEN Reply(e, "ENOENT")
       ELSE IF ~CheckAccess(i.uid, i.uid, i.mode, req.uid, req.gid, f.mask)
       THEN Reply(e, "EACCES")
       ELSE [Reply(h.e, "OK") EXCEPT !.fh = h.fh]

OpendirH(e, req, ino, flags) ==
    LET f == ParseFlags(flags)
        g == GetInode(e, ino)
        i == g.inode
        h == GetNextFileHandle(e, f.read, f.write)
    IN IF ~g.some THEN Reply(e, "ENOENT")
       ELSE IF f.err # "OK" THEN Reply(e, f.err)
       ELSE IF ~CheckAccess(i.uid, i.gid, i.mode, req.uid, req.gid, f.mask)
       THEN Reply(e, "EACCES")
       ELSE [Reply(h.e, "OK") EXCEPT !.fh = h.fh]

\* the names of a table in the order a BTreeMap<String, _> iterates them
NameOrder == <<".", "..", "a", "b">>

RECURSIVE Listing(_, _)
Listing(entries, i) ==
    IF i > Len(NameOrder) THEN <<>>
    ELSE IF NameOrder[i] \in DOMAIN entries
    THEN <<NameOrder[i]>> \o Listing(entries, i + 1)
    ELSE Listing(entries, i + 1)

ReaddirH(e, req, ino, offset) ==
    LET g == GetInode(e, ino)
        inode == g.inode
        Listed(t) ==
            LET names == Listing(t.d.entries, 1)
                rest == SubSeq(names, offset + 1, Len(names))
            IN IF t.panic THEN Panicked(e)
               ELSE IF \E j \in 1 .. Len(rest) : ~InodeExists(e, t.d.entries[rest[j]])
               THEN Reply(e, "ENOENT")
               ELSE [Reply(e, "OK") EXCEPT !.data = rest]
    IN IF ~g.some THEN Reply(e, "ENOENT")
       ELSE IF ~CheckAccess(inode.uid, inode.gid, inode.mode, req.uid, req.gid, R_OK)
       THEN Reply(e, "EACCES")
       ELSE IF offset < 0 THEN Reply(e, "EINVAL")
       ELSE Listed(GetDentry(e, inode))

StatfsH(e) ==
    [Reply(e, "OK") EXCEPT !.data =
        <<e.sb.block_count, e.sb.free_blocks, e.sb.free_blocks,
          e.sb.inode_count - e.sb.free_inodes, e.sb.free_inodes,
          e.sb.block_size, MAX_NAME_LENGTH, e.sb.block_size>>]

AccessH(e, req, ino, mask) ==
    LET g == GetInode(e, ino)
        inode == g.inode
    IN IF ~g.some THEN Reply(e, "ENOENT")
       ELSE IF CheckAccess(inode.uid, inode.gid, inode.mode, req.uid, req.gid, mask)
       THEN Reply(e, "OK")
       ELSE Reply(e, "EACCES")

\* an absent Option argument
None == 0 - 1

\* the two refusals of a time or flags attribute of setattr; now_ok: the
\* attribute is TimeOrNow::Now, which the first test lets through
AttrRefused(inode, req, now_ok) ==
    IF inode.uid # req.uid /\ req.uid # 0 /\ ~now_ok THEN "EPERM"
    ELSE IF inode.uid # req.uid /\ ~MayWrite(inode, req) THEN "EACCES"
    ELSE "OK"

\* the attributes after size, in source order: atime, ctime, crtime, mtime,
\* flags.  times[k] is None, 0 (TimeOrNow::Now) or 1 (a given time); only
\* the flags value is stored.
RECURSIVE SetattrTail(_, _, _, _, _)
SetattrTail(inode, req, times, flags, k) ==
    IF k > Len(times)
    THEN IF flags = None THEN [err |-> "OK", inode |-> inode]
         ELSE IF AttrRefused(inode, req, FALSE) # "OK"
         THEN [err |-> AttrRefused(inode, req, FALSE), inode |-> inode]
         ELSE [err |-> "OK", inode |-> [inode EXCEPT !.flags = flags]]
    ELSE IF times[k] = None THEN SetattrTail(inode, req, times, flags, k + 1)
    ELSE LET now_ok == k \in {1, 4} /\ times[k] = 0
             r == AttrRefused(inode, req, now_ok)
         IN IF r # "OK" THEN [err |-> r, inode |-> inode]
            ELSE SetattrTail(inode, req, times, flags, k + 1)

\* get_groups(pid): the groups of the calling process, its own gid among them
GetGroups(req) == {req.gid}

SetattrH(e, req, ino, mode, uid, gid, size, has_fh, fh, times, flags) ==
    LET g == GetInode(e, ino)
        inode == g.inode
        \* chmod
        m_inode == [inode EXCEPT !.mode =
                       IF req.uid # 0 /\ req.gid # inode.gid
                       THEN BitClear(mode, S_ISGID) ELSE mode]
        \* chown
        c0 == IF BitAnd(inode.mode, S_IXUSR + S_IXGRP + S_IXOTH) # 0
              THEN InodeClearSuidSgid(inode) ELSE inode
        c1 == IF uid # None
              THEN [c0 EXCEPT !.uid = uid, !.mode = BitClear(@, S_ISUID)] ELSE c0
        c2 == IF gid # None
              THEN [c1 EXCEPT !.gid = gid,
                              !.mode = IF req.uid # 0 THEN BitClear(@, S_ISGID) ELSE @]
              ELSE c1
        \* truncate, times, flags
        Rest(t, a) ==
            IF t.e.panic THEN Panicked(e)
            ELSE IF t.err # "OK" THEN Reply(t.e, t.err)
            ELSE IF a.err # "OK" THEN Reply(t.e, a.err)
            ELSE OkStored(e, WriteInode(t.e, a.inode), ino)
        Truncated(t) == Rest(t, SetattrTail(t.inode, req, times, flags, 1))
    IN IF ~g.some THEN Reply(e, "ENOENT")
       ELSE IF mode # None
       THEN IF req.uid # 0 /\ req.uid # inode.uid THEN Reply(e, "EPERM")
            ELSE OkAttr(e, WriteInode(e, m_inode), m_inode)
       ELSE IF uid # None \/ gid # None
       THEN IF gid # None /\ req.uid # 0 /\ gid \notin GetGroups(req)
            THEN Reply(e, "EPERM")
            ELSE IF uid # None /\ req.uid # 0 /\ ~(uid = inode.uid /\ req.uid = inode.uid)
            THEN Reply(e, "EPERM")
            ELSE IF gid # None /\ req.uid # 0 /\ req.uid # inode.uid
            THEN Reply(e, "EPERM")
            ELSE OkAttr(e, WriteInode(e, c2), c2)
       ELSE IF size # None /\ has_fh /\ ~CheckFileHandleWrite(fh) THEN Reply(e, "EACCES")
       ELSE IF size = None THEN Truncated([e |-> e, inode |-> inode, err |-> "OK"])
       ELSE IF has_fh THEN Truncated(TruncateInode(e, inode, size, 0, 0))
       ELSE Truncated(TruncateInode(e, inode, size, req.uid, req.gid))
\* a rename that leaves ".." of the moved directory as it was
DotDotKept(e, dir, up) == e

\* if dir is a directory: get_dentry(dir), entries.insert("..", up),
\* write_dentry(dir), write_inode(dir)
DotDot(e, dir, up) ==
    IF dir.kind = "Directory" THEN StoreInode(PutEntry(e, dir, "..", up)) ELSE e

\* rename with RENAME_EXCHANGE, after the access checks
RenameExchange(e, parent, name, new_parent, new_name, inode, parent_inode, new_parent_inode, lx) ==
    LET Swapped(w1) ==
            DotDot(DotDot(WriteInode(WriteInode(WriteInode(WriteInode(
                              ProbeDentry(w1.e, parent_inode),
                              parent_inode), new_parent_inode), inode), w1.inode),
                          inode, new_parent),
                   w1.inode, parent)
    IN IF ~lx.some THEN Reply(e, "ENOENT")
       ELSE Ok(e, Swapped(PutEntry(e, lx.inode, new_name, inode.id)))

\* rename without RENAME_EXCHANGE, after the access checks
RenameMove(e, req, parent, name, new_parent, new_name, inode, parent_inode, new_parent_inode, lx) ==
    LET existing_inode == lx.inode
        existing1 == [existing_inode EXCEPT !.hard_links =
                         IF existing_inode.kind = "Directory" THEN 0 ELSE @ - 1]
        \* the target exists: [e, inode], inode the parent's
        Replaced(wa) ==
            [e |-> IF existing1.hard_links = 0
                   THEN DeleteInode(WriteInode(wa.e, existing1), existing_inode.id)
                   ELSE WriteInode(wa.e, existing1),
             inode |-> wa.inode]
        Target ==
            IF ~lx.some THEN [e |-> e, inode |-> parent_inode]
            ELSE IF existing_inode.kind # "Directory" /\ existing_inode.hard_links = 0
            THEN [e |-> Panic(e), inode |-> parent_inode]
            ELSE Replaced(DropEntry(e, parent_inode, new_name))
        \* the move
        Stored(wb, wc) ==
            DotDot(WriteInode(WriteInode(WriteInode(wc.e, wb.inode), wc.inode), inode),
                   inode, new_parent)
        Entered(wb) == Stored(wb, PutEntry(wb.e, new_parent_inode, new_name, inode.id))
        Moved(s) == Entered(DropEntry(s.e, s.inode, name))
        Listed(target) ==
            IF lx.some /\ existing_inode.kind = "Directory" /\ target.panic
            THEN Panicked(e)
            ELSE IF /\ lx.some
                    /\ existing_inode.kind = "Directory"
                    /\ Cardinality(DOMAIN target.d.entries) > 2
            THEN Reply(e, "ENOTEMPTY")
            ELSE IF /\ inode.kind = "Directory"
                    /\ parent # new_parent
                    /\ ~MayWrite(inode, req)
            THEN Reply(e, "EACCES")
            ELSE Ok(e, Moved(Target))
    IN Listed(GetDentry(e, existing_inode))

RenameH(e, req, parent, name, new_parent, new_name, flags) ==
    LET p == GetInode(e, parent)
        parent_inode == p.inode
        np == GetInode(e, new_parent)
        new_parent_inode == np.inode
        Checked(l, lx) ==
            IF l.panic THEN Panicked(e)
            ELSE IF ~l.some THEN Reply(e, "ENOENT")
            ELSE IF ~p.some THEN Reply(e, "ENOENT")
            ELSE IF ~MayWrite(parent_inode, req) THEN Reply(e, "EACCES")
            ELSE IF /\ Sticky(parent_inode.mode)
                    /\ req.uid # 0
                    /\ req.uid # parent_inode.uid
                    /\ req.uid # l.inode.uid
            THEN Reply(e, "EACCES")
            ELSE IF ~np.some THEN Reply(e, "ENOENT")
            ELSE IF ~MayWrite(new_parent_inode, req) THEN Reply(e, "EACCES")
            ELSE IF lx.panic THEN Panicked(e)
            ELSE IF /\ Sticky(new_parent_inode.mode)
                    /\ lx.some
                    /\ req.uid # 0
                    /\ req.uid # new_parent_inode.uid
                    /\ req.uid # lx.inode.uid
            THEN Reply(e, "EACCES")
            ELSE IF BitAnd(flags, RENAME_EXCHANGE) # 0
            THEN RenameExchange(e, parent, name, new_parent, new_name, l.inode,
                                parent_inode, new_parent_inode, lx)
            ELSE RenameMove(e, req, parent, name, new_parent, new_name, l.inode,
                            parent_inode, new_parent_inode, lx)
    IN Checked(LookupInode(e, parent, name), LookupInode(e, new_parent, new_name))

FlushH(e) == Reply(e, "OK")

ReleasedirH(e, ino) ==
    IF GetInode(e, ino).some THEN Reply(e, "OK") ELSE Reply(e, "ENOENT")

\* ------------------------------------------------------- images and mount
\* cli/mod.rs mkfs: the superblock of SuperBlock::new and, in every group,
\* two bitmaps of block_size bytes of value 1 (bit 0 of every byte set)
EmptyBitmap(block_size) == {8 * k : k \in 0 .. (block_size - 1)}

Mkfs(block_size, block_group_count) ==
    [sb |-> SuperBlockNew(block_size, block_group_count),
     groups |-> [g \in 0 .. (block_group_count - 1) |->
                    BlockGroupNew(EmptyBitmap(block_size), EmptyBitmap(block_size))]]

\* the image of the same geometry whose bitmap bytes are 0
ZeroImage(block_size, block_group_count) ==
    [sb |-> SuperBlockNew(block_size, block_group_count),
     groups |-> [g \in 0 .. (block_group_count - 1) |-> BlockGroupNew({}, {})]]

Images == {"mkfs", "zero"}

ImageOf(which) ==
    IF which = "mkfs" THEN Mkfs(BlockSize, BlockGroupCount)
    ELSE ZeroImage(BlockSize, BlockGroupCount)

CreateRoot(e) ==
    LET inode0 == InodeNew(FUSE_ROOT_ID, "Directory", RootMode, 0, 0, 0)
        inode == [inode0 EXCEPT !.hard_links = 2]
    IN IF InodeExists(e, FUSE_ROOT_ID) THEN e
       ELSE StoreInode(WriteDentry(e, inode, DirectoryEntryNew(FUSE_ROOT_ID)))

\* Mfsr::new on an image whose inode table and data blocks are zero
MfsrNew(img) ==
    CreateRoot(Engine(img.sb, img.groups,
                      [i \in InoIds |-> ZeroInode],
                      [b \in BlockIds |-> ZeroBlock], 1))

\* ------------------------------------------------------------ the requests
Root == [uid |-> 0, gid |-> 0]

User == [uid |-> 1000, gid |-> 1000]

Callers == {Root, User}

Names == {"a", "b"}

FileModes == {420}

DirModes == {493}

CreateFlags == {O_RDWR, O_ACCMODE}

OpenFlags == {O_RDONLY, O_RDWR, O_ACCMODE, O_TRUNC}

AccessMasks == {F_OK, W_OK}

RenameFlags == {0, RENAME_EXCHANGE}

\* a handle the kernel passes back: the counter value and the two permission
\* bits; the engine looks at the bits only
Handle(read, write) == [n |-> 2, read |-> read, write |-> write]

Handles == {Handle(TRUE, FALSE), Handle(FALSE, TRUE), Handle(TRUE, TRUE)}

\* the last logical block write accepts
LastBlock == DirectPointers + PointersPerBlock - 1

Offsets == {0, LastBlock * BlockSize}

Fill(n) == [i \in 1 .. n |-> 7]

Datas == {Fill(2), Fill(2 * BlockSize)}

NoTimes == <<None, None, None, None>>

NoAttrs ==
    [mode |-> None, uid |-> None, gid |-> None, size |-> None, has_fh |-> FALSE,
     fh |-> NoHandle, times |-> NoTimes, flags |-> None]

SetattrArgs ==
    {[NoAttrs EXCEPT !.mode = 1023],
     [NoAttrs EXCEPT !.uid = 1000, !.gid = 1000],
     [NoAttrs EXCEPT !.size = 0],
     [NoAttrs EXCEPT !.size = 0, !.times = <<1, None, None, None>>],
     [NoAttrs EXCEPT !.size = 0, !.has_fh = TRUE, !.fh = Handle(TRUE, FALSE)],
     [NoAttrs EXCEPT !.size = 0, !.has_fh = TRUE, !.fh = Handle(TRUE, TRUE)],
     [NoAttrs EXCEPT !.times = <<0, 1, 1, 0>>, !.flags = O_RDWR]}

\* ---------------------------------------------------------- state machine
VARIABLES
    image,          \* which image was mounted
    super_block,    \* Mfsr.super_block
    block_groups,   \* Mfsr.block_groups
    inode_table,    \* Mfsr.io_map, the inode table
    data_blocks,    \* Mfsr.io_map, the data blocks
    next_fh,        \* Mfsr.next_fh
    panicked,       \* a handler panicked: the mount is gone
    calls           \* the requests the kernel has sent to this mount

vars == <<image, super_block, block_groups, inode_table, data_blocks, next_fh, panicked,
          calls>>

E == Engine(super_block, block_groups, inode_table, data_blocks, next_fh)

Geometry == BlockSize * 8 * BlockGroupCount

\* data blocks allocated since the image was made
Allocated(e) == e.sb.block_count - Geometry

\* the engine variables are those of e
Holds(e) ==
    /\ super_block = e.sb
    /\ block_groups = e.groups
    /\ inode_table = e.inodes
    /\ data_blocks = e.blocks
    /\ next_fh = e.next_fh

Init ==
    /\ image \in Images
    /\ Holds(MfsrNew(ImageOf(image)))
    /\ panicked = FALSE
    /\ calls = 0

\* The handler returned r.  A panic ends the process: nothing is served after
\* it, and the engine variables, which stand for nothing any more, are parked
\* at their values of mount time.
Ready == ~panicked /\ calls < MaxCalls

Serve(r) ==
    /\ Ready
    /\ calls' = calls + 1
    /\ Allocated(r.e) <= MaxAllocs
    /\ r.e.next_fh <= MaxFh
    /\ panicked' = r.e.panic
    /\ LET e == IF r.e.panic THEN MfsrNew(ImageOf(image)) ELSE r.e
       IN /\ super_block' = e.sb
          /\ block_groups' = e.groups
          /\ inode_table' = e.inodes
          /\ data_blocks' = e.blocks
          /\ next_fh' = e.next_fh
    /\ UNCHANGED image

\* The handlers are called by the kernel only, which resolves paths and
\* checks file types before it sends a request: names are looked up, created
\* and removed in directories; open, read, write and truncate go to
\* non-directories, opendir, readdir and releasedir to directories; unlink
\* names a non-directory and rmdir a directory; rename is sent for two
\* different inodes, replaces a directory by a directory and a file by a
\* file, moves no directory under itself and names no target that holds
\* the source (ancestry follows the entries other than "." and "..").
NotDirectory(e, ino) == ~(InodeExists(e, ino) /\ InodeAt(e, ino).kind = "Directory")

NotFile(e, ino) == ~(InodeExists(e, ino) /\ InodeAt(e, ino).kind # "Directory")

\* the kind of the inode a lookup_inode found, "None" without one
KindOf(l) == IF l.some THEN l.inode.kind ELSE "None"

\* the ids the entries of directory d name, "." and ".." aside
Children(e, d) ==
    LET g == GetDentry(e, InodeAt(e, d))
    IN IF NotDirectory(e, d) \/ g.panic THEN {}
       ELSE {g.d.entries[n] : n \in DOMAIN g.d.entries \ {".", ".."}}

\* the ids of S and those reached from them through at most n entries
RECURSIVE Under(_, _, _)
Under(e, S, n) ==
    IF n = 0 THEN S
    ELSE Under(e, S \cup UNION {Children(e, d) : d \in S}, n - 1)

RenameSent(e, parent, name, new_parent, new_name, flags) ==
    LET exchange == BitAnd(flags, RENAME_EXCHANGE) # 0
        Sent(l, lx) ==
            /\ (l.some /\ lx.some) => l.inode.id # lx.inode.id
            /\ (~exchange /\ l.some /\ lx.some) =>
                  ((l.inode.kind = "Directory") <=> (lx.inode.kind = "Directory"))
            /\ KindOf(l) = "Directory" =>
                  new_parent \notin Under(e, {l.inode.id}, MaxIno)
            /\ KindOf(lx) = "Directory" =>
                  parent \notin Under(e, {lx.inode.id}, MaxIno)
    IN /\ <<parent, name>> # <<new_parent, new_name>>
       /\ NotFile(e, parent)
       /\ NotFile(e, new_parent)
       /\ Sent(LookupInode(e, parent, name), LookupInode(e, new_parent, new_name))

Lookup(parent, name) ==
    /\ Ready
    /\ NotFile(E, parent)
    /\ Serve(LookupH(E, parent, name))

Getattr(ino) == Serve(GetattrH(E, ino))

Setattr(req, ino, a) ==
    /\ Ready
    /\ a.size # None => NotDirectory(E, ino)
    /\ Serve(SetattrH(E, req, ino, a.mode, a.uid, a.gid, a.size, a.has_fh, a.fh,
                      a.times, a.flags))

Open(req, ino, flags) ==
    /\ Ready
    /\ NotDirectory(E, ino)
    /\ Serve(OpenH(E, req, ino, flags))

Mkdir(req, parent, name, mode) ==
    /\ Ready
    /\ NotFile(E, parent)
    /\ NextInodeId(E) <= MaxIno
    /\ Serve(MkdirH(E, req, parent, name, mode))

Write(ino, fh, offset, data) ==
    /\ Ready
    /\ NotDirectory(E, ino)
    /\ Serve(WriteH(E, ino, fh, offset, data))

Read(ino, fh, offset, size, build) ==
    /\ Ready
    /\ NotDirectory(E, ino)
    /\ Serve(ReadH(E, ino, fh, offset, size, build))

Flush == Serve(FlushH(E))

Opendir(req, ino, flags) ==
    /\ Ready
    /\ NotFile(E, ino)
    /\ Serve(OpendirH(E, req, ino, flags))

Readdir(req, ino, offset) ==
    /\ Ready
    /\ NotFile(E, ino)
    /\ Serve(ReaddirH(E, req, ino, offset))

Releasedir(ino) ==
    /\ Ready
    /\ NotFile(E, ino)
    /\ Serve(ReleasedirH(E, ino))

Statfs == Serve(StatfsH(E))

Create(req, parent, name, mode, flags) ==
    /\ Ready
    /\ NotFile(E, parent)
    /\ NextInodeId(E) <= MaxIno
    /\ Serve(CreateH(E, req, parent, name, mode, flags))

Unlink(req, parent, name) ==
    /\ Ready
    /\ NotFile(E, parent)
    /\ KindOf(LookupInode(E, parent, name)) # "Directory"
    /\ Serve(UnlinkH(E, req, parent, name))

Rename(req, parent, name, new_parent, new_name, flags) ==
    /\ Ready
    /\ RenameSent(E, parent, name, new_parent, new_name, flags)
    /\ Serve(RenameH(E, req, parent, name, new_parent, new_name, flags))

Rmdir(req, parent, name) ==
    /\ Ready
    /\ NotFile(E, parent)
    /\ KindOf(LookupInode(E, parent, name)) \in {"Directory", "None"}
    /\ Serve(RmdirH(E, req, parent, name))

Access(req, ino, mask) == Serve(AccessH(E, req, ino, mask))

Next ==
    \/ \E parent \in InoIds, name \in Names : Lookup(parent, name)
    \/ \E ino \in InoIds : Getattr(ino)
    \/ \E req \in Callers, ino \in InoIds, a \in SetattrArgs : Setattr(req, ino, a)
    \/ \E req \in Callers, ino \in InoIds, flags \in OpenFlags : Open(req, ino, flags)
    \/ \E req \in Callers, parent \in InoIds, name \in Names, mode \in DirModes :
          Mkdir(req, parent, name, mode)
    \/ \E ino \in InoIds, fh \in Handles, offset \in Offsets, data \in Datas :
          Write(ino, fh, offset, data)
    \/ \E ino \in InoIds, fh \in Handles, offset \in Offsets, build \in Builds :
          Read(ino, fh, offset, BlockSize, build)
    \/ Flush
    \/ \E req \in Callers, ino \in InoIds, flags \in OpenFlags : Opendir(req, ino, flags)
    \/ \E req \in Callers, ino \in InoIds : Readdir(req, ino, 0)
    \/ \E ino \in InoIds : Releasedir(ino)
    \/ Statfs
    \/ \E req \in Callers, parent \in InoIds, name \in Names, mode \in FileModes,
          flags \in CreateFlags : Create(req, parent, name, mode, flags)
    \/ \E req \in Callers, parent \in InoIds, name \in Names : Unlink(req, parent, name)
    \/ \E req \in Callers, parent \in InoIds, name \in Names, new_parent \in InoIds,
          new_name \in Names, flags \in RenameFlags :
          Rename(req, parent, name, new_parent, new_name, flags)
    \/ \E req \in Callers, parent \in InoIds, name \in Names : Rmdir(req, parent, name)
    \/ \E req \in Callers, ino \in InoIds, mask \in AccessMasks : Access(req, ino, mask)

Spec == Init /\ [][Next]_vars

\* ------------------------------------------------ the claims of the contract
RECURSIVE BitsSet(_, _, _)
\* the set bits of one bitmap of every group, group g onwards
BitsSet(groups, which, g) ==
    IF g \notin DOMAIN groups THEN 0
    ELSE Cardinality(groups[g][which]) + BitsSet(groups, which, g + 1)

DataBitsSet(e) == BitsSet(e.groups, "data_bitmap", 0)

InodeBitsSet(e) == BitsSet(e.groups, "inode_bitmap", 0)

\* a handler has returned and the mount is up
Returned == ~panicked /\ calls > 0

LiveInodes(e) == {i \in InoIds : InodeExists(e, i)}

LiveDirectories(e) == {i \in LiveInodes(e) : InodeAt(e, i).kind = "Directory"}

LiveFiles(e) == {i \in LiveInodes(e) : InodeAt(e, i).kind = "RegularFile"}

\* C1: after every handler return, the superblock's free_blocks equals
\* block_count minus the number of set bits in all data bitmaps.
FreeBlocksMatchDataBitmaps ==
    Returned => super_block.free_blocks = super_block.block_count - DataBitsSet(E)

\* C2: after every handler return, the superblock's free_inodes equals
\* inode_count minus the number of set bits in all inode bitmaps.
FreeInodesMatchInodeBitmaps ==
    Returned => super_block.free_inodes = super_block.inode_count - InodeBitsSet(E)

\* C3: after any sequence of handler calls block_count still equals
\* block_size * 8 * block_group_count.
BlockCountIsGeometry ==
    Returned =>
        super_block.block_count
            = super_block.block_size * 8 * super_block.block_group_count

\* C4: for every inode id i with 1 <= i <= inode_count, in every reachable
\* state, exists(i) and get(i) are defined (no index outside the block-group
\* vector or a bitmap, no underflow) and exists(i) is true exactly when get(i)
\* returns an inode; for an id outside that range exists returns false.
ExistsAndGetDefined ==
    ~panicked =>
        \A build \in Builds :
            /\ \A i \in 1 .. super_block.inode_count :
                  /\ ~InodeExistsIn(E, i, build).panic
                  /\ InodeExistsIn(E, i, build).val <=> GetInode(E, i).some
            /\ \A i \in {0, super_block.inode_count + 1} :
                  /\ ~InodeExistsIn(E, i, build).panic
                  /\ ~InodeExistsIn(E, i, build).val

\* C5: after every handler return, for every live directory inode, every child
\* id stored in its directory-entry map refers to an inode whose bitmap bit is
\* set.
ChildrenExist ==
    Returned =>
        \A d \in LiveDirectories(E) :
            LET g == GetDentry(E, InodeAt(E, d))
            IN ~g.panic => \A n \in DOMAIN g.d.entries : InodeExists(E, g.d.entries[n])

\* C6: after every handler return, every live directory has the entries "."
\* and ".." in its directory-entry map, "." mapping to its own id and the
\* root's ".." to the root.
DotEntriesPresent ==
    Returned =>
        \A d \in LiveDirectories(E) :
            LET g == GetDentry(E, InodeAt(E, d))
            IN /\ ~g.panic
               /\ {".", ".."} \subseteq DOMAIN g.d.entries
               /\ g.d.entries["."] = d
               /\ d = FUSE_ROOT_ID => g.d.entries[".."] = FUSE_ROOT_ID

\* the blocks an inode points at: its non-zero direct pointers and, when the
\* indirect pointer is non-zero, the indirect block and its non-zero slots
BlocksPointedAt(e, inode) ==
    NonZeroCount(inode.direct_pointers)
        + (IF inode.indirect_pointer = 0 THEN 0
           ELSE 1 + NonZeroCount(PointersOf(BlockAt(e, inode.indirect_pointer)).p))

\* C7: after every handler return, for every live inode, block_count equals
\* the number of non-zero direct pointers plus, when the indirect pointer is
\* non-zero, the number of non-zero slots of the indirect block plus one.
BlockCountMatchesPointers ==
    Returned =>
        \A i \in LiveInodes(E) :
            InodeAt(E, i).block_count = BlocksPointedAt(E, InodeAt(E, i))

Max(a, b) == IF a > b THEN a ELSE b

RoundTripOffsets == {0, 1, BlockSize}

\* C8: a successful write(offset, data) through a write-permitted handle
\* followed by read(offset, len(data)) through a read-permitted handle on the
\* same inode returns exactly the bytes of data, for every offset and length;
\* afterwards size is the maximum of the old size and offset + len(data), and
\* two full blocks written to an empty file leave block_count = 2.
WriteThenReadReturnsData ==
    ~panicked =>
        \A ino \in LiveFiles(E), offset \in RoundTripOffsets, data \in Datas,
           build \in Builds :
            LET old == InodeAt(E, ino)
                w == WriteH(E, ino, Handle(FALSE, TRUE), offset, data)
                r == ReadH(w.e, ino, Handle(TRUE, FALSE), offset, Len(data), build)
                new == InodeAt(w.e, ino)
            IN w.err = "OK" =>
                  /\ r.err = "OK"
                  /\ r.data = data
                  /\ new.size = Max(old.size, offset + Len(data))
                  /\ (old.block_count = 0 /\ offset = 0 /\ Len(data) = 2 * BlockSize)
                        => new.block_count = 2

\* the logical blocks of an inode from block k on hold no pointer
TailCleared(e, inode, k) ==
    /\ \A j \in DOMAIN inode.direct_pointers : j > k => inode.direct_pointers[j] = 0
    /\ k <= DirectPointers => inode.indirect_pointer = 0

\* the ids of the blocks an inode points at directly
DirectBlocks(inode) ==
    {inode.direct_pointers[j] : j \in DOMAIN inode.direct_pointers} \ {0}

\* C9: a successful setattr(size = n) that shrinks a file frees its tail: for
\* every logical block k >= ceil(n / block_size) the pointer is cleared, the
\* data-bitmap bit is cleared, free_blocks is incremented and block_count
\* drops (truncating to 0 gives size 0 and block_count 0).
ShrinkFreesTail ==
    ~panicked =>
        \A req \in Callers, ino \in LiveFiles(E) :
            LET old == InodeAt(E, ino)
                s == SetattrH(E, req, ino, None, None, None, 0, TRUE,
                              Handle(FALSE, TRUE), NoTimes, None)
                new == InodeAt(s.e, ino)
            IN (old.size > 0 /\ s.err = "OK") =>
                  /\ new.size = 0
                  /\ new.block_count = 0
                  /\ TailCleared(s.e, new, 0)
                  /\ \A b \in DirectBlocks(old) :
                        BitPos(DataBlockBitmapOffset(s.e.sb, b))
                            \notin s.e.groups[0].data_bitmap
                  /\ s.e.sb.free_blocks = E.sb.free_blocks + old.block_count

\* the directory-entry table g holds an entry other than "." and ".."
HasChildren(g) == ~g.panic /\ (DOMAIN g.d.entries) \ {".", ".."} # {}

\* C10: rmdir(parent, name) on a directory with one or more children replies
\* NotEmpty and removes nothing; rename onto an existing directory with one
\* or more children replies NotEmpty.
NonEmptyDirectoryStays ==
    ~panicked =>
        \A parent \in InoIds, name \in Names :
            LET l == LookupInode(E, parent, name)
                rm == RmdirH(E, Root, parent, name)
            IN (~l.panic /\ l.some /\ l.inode.kind = "Directory"
                  /\ HasChildren(GetDentry(E, l.inode))) =>
                  /\ rm.err = "ENOTEMPTY"
                  /\ rm.e = E
                  /\ \A from \in InoIds, old_name \in Names :
                        LookupH(E, from, old_name).err = "OK" =>
                            RenameH(E, Root, from, old_name, parent, name, 0).err
                                = "ENOTEMPTY"

\* a name of n bytes
RECURSIVE NameOfLen(_)
NameOfLen(n) == IF n = 0 THEN "" ELSE "x" \o NameOfLen(n - 1)

\* the shortest name lookup refuses
LongName == NameOfLen(MAX_NAME_LENGTH + 1)

\* C11: create(parent, name, ...) with a name longer than 255 bytes replies
\* NameTooLong and creates no inode and no directory entry (stated for a
\* request create would otherwise serve: a live directory as parent, root as
\* caller, access mode O_RDWR).
LongNameCreatesNothing ==
    ~panicked =>
        \A parent \in LiveDirectories(E) :
            LET c == CreateH(E, Root, parent, LongName, 420, O_RDWR)
            IN c.err # "PANIC" => c.err = "ENAMETOOLONG" /\ c.e = E

\* the access check denies W on directory parent to the caller
DeniedW(e, parent, req) ==
    LET p == InodeAt(e, parent)
    IN ~CheckAccess(p.uid, p.gid, p.mode, req.uid, req.gid, W_OK)

\* C12 as stated: mkdir(parent, name, mode) by a caller for whom the access
\* check denies W on the parent directory replies EACCES and leaves the
\* engine (bitmaps, counters, the parent's inode and its entry map) unchanged.
MkdirDeniedAnyName ==
    ~panicked =>
        \A req \in Callers, parent \in LiveDirectories(E), name \in Names,
           mode \in DirModes :
            LET r == MkdirH(E, req, parent, name, mode)
            IN (DeniedW(E, parent, req) /\ r.err # "PANIC") =>
                  r.err = "EACCES" /\ r.e = E

\* C12: mkdir(parent, name, mode) of a name that parent does not hold, by a
\* caller for whom the access check denies W on the parent directory, replies
\* EACCES and leaves the engine (bitmaps, counters, the parent's inode and its
\* entry map) unchanged.
MkdirDeniedNewName ==
    ~panicked =>
        \A req \in Callers, parent \in LiveDirectories(E), name \in Names,
           mode \in DirModes :
            LET r == MkdirH(E, req, parent, name, mode)
                l == LookupInode(E, parent, name)
            IN (DeniedW(E, parent, req) /\ ~l.panic /\ ~l.some) =>
                  r.err = "EACCES" /\ r.e = E

\* a directory that denies W to the unprivileged caller and does not hold "b"
MkdirDeniedSeen ==
    /\ ~panicked
    /\ \E parent \in LiveDirectories(E) :
          /\ DeniedW(E, parent, User)
          /\ ~LookupInode(E, parent, "b").panic
          /\ ~LookupInode(E, parent, "b").some
          /\ MkdirH(E, User, parent, "b", 493).err = "EACCES"

\* C13: a write whose offset lies past MAX_FILE_SIZE replies FileTooLarge and
\* mutates nothing, and a non-empty write whose whole range lies below
\* MAX_FILE_SIZE is not rejected with FileTooLarge.  (The offset past
\* MAX_FILE_SIZE is given by its logical block, the start_block of write.)
WriteLimitIsAdvertised ==
    ~panicked =>
        \A ino \in LiveFiles(E), data \in Datas :
            LET past == WriteChunks([e |-> E, inode |-> InodeAt(E, ino),
                                     written |-> 0, err |-> "OK"],
                                    MAX_FILE_SIZE_KIB * (1024 \div BlockSize) + 1,
                                    data, 0)
                below == WriteH(E, ino, Handle(FALSE, TRUE),
                                (LastBlock + 1) * BlockSize, data)
            IN /\ past.err = "EFBIG"
               /\ past.e = E
               /\ below.err # "EFBIG"

\* the data blocks whose data-bitmap bit is set
BlocksInUse(e) ==
    {b \in BlockIds :
        LET off == DataBlockBitmapOffset(e.sb, b)
        IN BitPos(off) \in e.groups[off.group].data_bitmap}

\* the data blocks an inode references: through a direct pointer, the
\* indirect pointer or a slot of its indirect block
BlocksReferenced(e, inode) ==
    DirectBlocks(inode)
        \cup (IF inode.indirect_pointer = 0 THEN {}
              ELSE LET p == PointersOf(BlockAt(e, inode.indirect_pointer)).p
                   IN {inode.indirect_pointer} \cup ({p[j] : j \in DOMAIN p} \ {0}))

\* C14: a write of two blocks that starts on the largest supported logical
\* block stops after the chunk it wrote, and the stored inode reflects that
\* chunk: its size covers the bytes written and the data blocks allocated
\* for them are referenced by the stored inode's pointers.
PartialWriteIsStored ==
    ~panicked =>
        \A ino \in LiveFiles(E) :
            LET old == InodeAt(E, ino)
                w == WriteH(E, ino, Handle(FALSE, TRUE), LastBlock * BlockSize,
                            Fill(2 * BlockSize))
                new == InodeAt(w.e, ino)
            IN w.err # "PANIC" =>
                  /\ new.size = Max(old.size, (LastBlock + 1) * BlockSize)
                  /\ (BlocksInUse(w.e) \ BlocksInUse(E)) \subseteq BlocksReferenced(w.e, new)

\* block b is free in e or belongs to a live inode of e
FreeOrOwned(e, b) ==
    b \in BlocksInUse(e) =>
        \E i \in LiveInodes(e) : b \in BlocksReferenced(e, InodeAt(e, i))

\* C15: rename(parent, name, new_parent, new_name, 0) onto an existing
\* regular file with hard_links = 1 deletes the target inode (its inode bit
\* and its data blocks' bitmap bits are cleared), removes name from parent
\* and makes new_name in new_parent map to the source inode.
RenameReplacesFile ==
    ~panicked =>
        \A parent \in LiveDirectories(E), name \in Names,
           new_parent \in LiveDirectories(E), new_name \in Names :
            LET l == LookupInode(E, parent, name)
                lx == LookupInode(E, new_parent, new_name)
                r == RenameH(E, Root, parent, name, new_parent, new_name, 0)
                now == LookupInode(r.e, new_parent, new_name)
            IN (/\ RenameSent(E, parent, name, new_parent, new_name, 0)
                /\ ~l.panic /\ l.some
                /\ ~lx.panic /\ lx.some
                /\ lx.inode.kind = "RegularFile" /\ lx.inode.hard_links = 1) =>
                  /\ r.err = "OK"
                  /\ ~InodeExists(r.e, lx.inode.id)
                  /\ \A b \in BlocksReferenced(E, lx.inode) : FreeOrOwned(r.e, b)
                  /\ LookupH(r.e, parent, name).err = "ENOENT"
                  /\ ~now.panic /\ now.some /\ now.inode.id = l.inode.id

\* the table of directory d in e holds name, bound to id
Binds(e, d, name, id) ==
    LET g == GetDentry(e, InodeAt(e, d))
    IN ~g.panic /\ name \in DOMAIN g.d.entries /\ g.d.entries[name] = id

\* the table of directory d in e is readable and does not hold name
Lacks(e, d, name) ==
    LET g == GetDentry(e, InodeAt(e, d))
    IN ~g.panic /\ name \notin DOMAIN g.d.entries

\* the successful rename(parent, name, new_parent, new_name, 0) of a
\* directory to another parent: the request and what it leaves
DirectoryMoves(req, parent, name, new_parent, new_name) ==
    LET l == LookupInode(E, parent, name)
    IN /\ parent # new_parent
       /\ RenameSent(E, parent, name, new_parent, new_name, 0)
       /\ ~l.panic /\ l.some /\ l.inode.kind = "Directory"
       /\ RenameH(E, req, parent, name, new_parent, new_name, 0).err = "OK"

\* the table of directory d with name bound to id serialises into one block
FitsWith(e, d, name, id) ==
    LET g == GetDentry(e, InodeAt(e, d))
    IN /\ ~g.panic
       /\ DentryBufLen([g.d EXCEPT !.entries = EntriesInsert(@, name, id)])
            <= e.sb.block_size

OtherEntries(e, d, skip) ==
    LET t == GetDentry(e, InodeAt(e, d)).d.entries
    IN [n \in DOMAIN t \ skip |-> t[n]]

\* C17: a rename with RENAME_EXCHANGE on two existing entries swaps them:
\* afterwards name in parent maps to the inode new_name in new_parent
\* mapped to, new_name in new_parent maps to the inode name in parent
\* mapped to, both inodes are live, and no other entry of either directory
\* has changed
ExchangeSwaps ==
    ~panicked =>
        \A parent \in LiveDirectories(E), new_parent \in LiveDirectories(E) :
            \A name \in Names, new_name \in Names :
                LET l == LookupInode(E, parent, name)
                    lx == LookupInode(E, new_parent, new_name)
                    r == RenameH(E, Root, parent, name, new_parent, new_name,
                                 RENAME_EXCHANGE)
                IN (/\ RenameSent(E, parent, name, new_parent, new_name, RENAME_EXCHANGE)
                    /\ l.some
                    /\ lx.some
                    /\ r.err # "PANIC")
                   => /\ r.err = "OK"
                      /\ Binds(r.e, parent, name, lx.inode.id)
                      /\ Binds(r.e, new_parent, new_name, l.inode.id)
                      /\ InodeExists(r.e, l.inode.id)
                      /\ InodeExists(r.e, lx.inode.id)
                      /\ OtherEntries(r.e, parent, {name, new_name})
                           = OtherEntries(E, parent, {name, new_name})
                      /\ OtherEntries(r.e, new_parent, {name, new_name})
                           = OtherEntries(E, new_parent, {name, new_name})

\* C18: in a sticky parent that grants W to the caller, unlink of an
\* existing file succeeds when the caller is root, the owner of the parent or
\* the owner of the file, and is refused with a permission error otherwise
StickyUnlinkHonoursOwner ==
    ~panicked =>
        \A req \in Callers, parent \in LiveDirectories(E), name \in Names :
            LET p == InodeAt(E, parent)
                l == LookupInode(E, parent, name)
                r == UnlinkH(E, req, parent, name)
            IN (/\ Sticky(p.mode)
                /\ CheckAccess(p.uid, p.gid, p.mode, req.uid, req.gid, W_OK)
                /\ l.some
                /\ l.inode.kind # "Directory"
                /\ r.err # "PANIC")
               => IF req.uid = 0 \/ req.uid = p.uid \/ req.uid = l.inode.uid
                  THEN r.err = "OK"
                  ELSE r.err \in {"EACCES", "EPERM"}

\* every combination of the two permission bits a handle can carry
AnyHandles == {Handle(r, w) : r \in BOOLEAN, w \in BOOLEAN}

\* C19: a write through a handle whose write bit is clear replies EACCES and
\* changes no state, and a read through a handle whose read bit is clear
\* replies EACCES, for every inode number (live or not, whatever its owner
\* and mode), offset and payload
HandleBitsGuardIo ==
    ~panicked =>
        \A ino \in InoIds, fh \in AnyHandles, offset \in Offsets :
            /\ ~fh.write =>
                  \A data \in Datas :
                      LET w == WriteH(E, ino, fh, offset, data)
                      IN w.err = "EACCES" /\ w.e = E
            /\ ~fh.read =>
                  \A build \in Builds :
                      ReadH(E, ino, fh, offset, BlockSize, build).err = "EACCES"

\* a file with data that its owner may read and write: a write and a read of
\* it are served through handles that carry the bit and refused through
\* handles that do not
HandleRefusalSeen ==
    /\ ~panicked
    /\ \E ino \in LiveInodes(E) :
          LET i == InodeAt(E, ino)
          IN /\ i.kind = "RegularFile"
             /\ i.size > 0
             /\ WriteH(E, ino, Handle(FALSE, TRUE), 0, Fill(2)).err = "OK"
             /\ WriteH(E, ino, Handle(TRUE, FALSE), 0, Fill(2)).err = "EACCES"
             /\ ReadH(E, ino, Handle(TRUE, FALSE), 0, BlockSize, "release").err = "OK"
             /\ ReadH(E, ino, Handle(FALSE, TRUE), 0, BlockSize, "release").err = "EACCES"

\* the access modes, alone and with O_TRUNC
FlagWords == {acc + t : acc \in {O_RDONLY, O_WRONLY, O_RDWR, O_ACCMODE}, t \in {0, O_TRUNC}}

\* the handle carries the bits the access mode of flags asks for
BitsFollow(fh, flags) ==
    LET acc == BitAnd(flags, O_ACCMODE)
    IN /\ fh.read <=> acc \in {O_RDONLY, O_RDWR}
       /\ fh.write <=> acc \in {O_WRONLY, O_RDWR}

\* C20: the handle of every successful open, opendir and create has its read
\* bit set exactly when the access mode is O_RDONLY or O_RDWR and its write
\* bit set exactly when it is O_WRONLY or O_RDWR; open with O_RDONLY and
\* O_TRUNC replies EACCES and hands out no handle
HandleBitsFollowFlags ==
    ~panicked =>
        \A req \in Callers, ino \in InoIds :
            /\ \A flags \in FlagWords :
                  LET o == OpenH(E, req, ino, flags)
                      d == OpendirH(E, req, ino, flags)
                  IN /\ o.err = "OK" => o.fh # NoHandle /\ BitsFollow(o.fh, flags)
                     /\ d.err = "OK" => d.fh # NoHandle /\ BitsFollow(d.fh, flags)
                     /\ \A name \in Names, mode \in FileModes :
                           LET c == CreateH(E, req, ino, name, mode, flags)
                           IN c.err = "OK" => c.fh # NoHandle /\ BitsFollow(c.fh, flags)
            /\ LET t == OpenH(E, req, ino, O_RDONLY + O_TRUNC)
               IN t.err = "EACCES" /\ t.fh = NoHandle /\ t.e = E

\* handles have been handed out, and on some file its owner is handed a
\* read-only, a write-only and a read-write handle and refused O_TRUNC
HandlesIssuedSeen ==
    /\ ~panicked
    /\ next_fh > 2
    /\ \E ino \in LiveInodes(E) :
          /\ InodeAt(E, ino).kind = "RegularFile"
          /\ \A flags \in {O_RDONLY, O_WRONLY, O_RDWR} :
                OpenH(E, User, ino, flags).err = "OK"
          /\ OpenH(E, User, ino, O_RDONLY).fh.read
          /\ ~OpenH(E, User, ino, O_RDONLY).fh.write
          /\ OpenH(E, User, ino, O_WRONLY).fh.write
          /\ OpenH(E, User, ino, O_TRUNC).err = "EACCES"
    /\ \E parent \in LiveDirectories(E), name \in Names :
          CreateH(E, Root, parent, name, 420, O_WRONLY).err = "OK"

\* r is the reply of a handler that started on E: a handle in it carries a
\* counter above next_fh, and next_fh is left equal to that counter
AboveCounter(r) == r.err = "OK" => r.fh.n > E.next_fh /\ r.e.next_fh = r.fh.n

\* every handle open, opendir or create would hand out now is above the
\* counter, hence above every handle handed out before
HandlesAboveCounter ==
    ~panicked =>
        \A req \in Callers, ino \in InoIds, flags \in FlagWords :
            /\ AboveCounter(OpenH(E, req, ino, flags))
            /\ AboveCounter(OpendirH(E, req, ino, flags))
            /\ \A name \in Names, mode \in FileModes :
                  AboveCounter(CreateH(E, req, ino, name, mode, flags))

PolicyErrors ==
    {"EACCES", "EPERM", "ENOENT", "EEXIST", "ENOTEMPTY", "ENAMETOOLONG", "EFBIG"}

\* a handler that started on E and replied r with a policy error left E
Untouched(r) == r.err \in PolicyErrors => r.e = E

\* setattr requests with several attributes, a later one of which may be
\* refused
SeveralAttrs ==
    SetattrArgs \cup
    {[NoAttrs EXCEPT !.size = 0, !.has_fh = TRUE, !.fh = Handle(FALSE, TRUE),
                     !.times = <<1, None, None, None>>],
     [NoAttrs EXCEPT !.size = 0, !.flags = O_RDWR]}

WriteUntouched ==
    \A ino \in InoIds, fh \in Handles, offset \in Offsets, data \in Datas :
        NotDirectory(E, ino) => Untouched(WriteH(E, ino, fh, offset, data))

SetattrUntouched ==
    \A req \in Callers, ino \in InoIds, a \in SeveralAttrs :
        (a.size # None => NotDirectory(E, ino)) =>
            Untouched(SetattrH(E, req, ino, a.mode, a.uid, a.gid, a.size, a.has_fh,
                               a.fh, a.times, a.flags))

RenameUntouched ==
    \A req \in Callers, parent \in InoIds, name \in Names, new_parent \in InoIds,
       new_name \in Names, flags \in RenameFlags :
        RenameSent(E, parent, name, new_parent, new_name, flags) =>
            Untouched(RenameH(E, req, parent, name, new_parent, new_name, flags))

NamespaceUntouched ==
    \A req \in Callers, parent \in InoIds, name \in Names :
        NotFile(E, parent) =>
            /\ Untouched(LookupH(E, parent, name))
            /\ \A mode \in DirModes : Untouched(MkdirH(E, req, parent, name, mode))
            /\ \A mode \in FileModes, flags \in CreateFlags :
                  Untouched(CreateH(E, req, parent, name, mode, flags))
            /\ KindOf(LookupInode(E, parent, name)) # "Directory" =>
                  Untouched(UnlinkH(E, req, parent, name))
            /\ KindOf(LookupInode(E, parent, name)) \in {"Directory", "None"} =>
                  Untouched(RmdirH(E, req, parent, name))

InodeCallsUntouched ==
    \A req \in Callers, ino \in InoIds :
        /\ Untouched(GetattrH(E, ino))
        /\ \A mask \in AccessMasks : Untouched(AccessH(E, req, ino, mask))
        /\ NotDirectory(E, ino) =>
              /\ \A flags \in OpenFlags : Untouched(OpenH(E, req, ino, flags))
              /\ \A fh \in Handles, offset \in Offsets, build \in Builds :
                    Untouched(ReadH(E, ino, fh, offset, BlockSize, build))
        /\ NotFile(E, ino) =>
              /\ \A flags \in OpenFlags : Untouched(OpendirH(E, req, ino, flags))
              /\ Untouched(ReaddirH(E, req, ino, 0))
              /\ Untouched(ReleasedirH(E, ino))

\* C22: whenever a handler replies with an access or policy error, the
\* engine state at its return (bitmaps, superblock counters, inode records,
\* directory tables) equals the state at its entry
PolicyErrorsTouchNothing ==
    ~panicked =>
        /\ InodeCallsUntouched
        /\ NamespaceUntouched
        /\ SetattrUntouched
        /\ WriteUntouched
        /\ RenameUntouched

\* ------------------------------------------- the access check on its own
\* The root directory with every mode of ModeBits bits and two owners (root
\* can give it any by setattr), and root turning further mode bits on, one
\* with each setattr.
ModeBits == 10

ModeWords == 0 .. (2 ^ ModeBits - 1)

Owners == {Root, User}

InitAccess ==
    /\ image = "zero"
    /\ \E m \in ModeWords, o \in Owners :
          LET e == MfsrNew(ImageOf("zero"))
          IN Holds(WriteInode(e, [InodeAt(e, FUSE_ROOT_ID) EXCEPT
                                     !.mode = m, !.uid = o.uid, !.gid = o.gid]))
    /\ panicked = FALSE
    /\ calls = 0

\* setattr(1, mode = the mode with bit k turned on) by root
TurnOn(k) ==
    /\ BitAnd(InodeAt(E, FUSE_ROOT_ID).mode, 2 ^ k) = 0
    /\ Serve(SetattrH(E, Root, FUSE_ROOT_ID, InodeAt(E, FUSE_ROOT_ID).mode + 2 ^ k,
                      None, None, None, FALSE, NoHandle, NoTimes, None))

NextAccess == \E k \in 0 .. (ModeBits - 1) : TurnOn(k)

SpecAccess == InitAccess /\ [][NextAccess]_vars

\* callers that are the owner, in the owner's group only, the owner with
\* another group, a stranger, and root
AccessCallers ==
    {Root, User, [uid |-> 2000, gid |-> 1000], [uid |-> 1000, gid |-> 2000],
     [uid |-> 2000, gid |-> 2000]}

MaskWords == 0 .. 8

\* the access check of inode for req and mask
Permits(inode, req, mask) ==
    CheckAccess(inode.uid, inode.gid, inode.mode, req.uid, req.gid, mask)

\* C23: the access check is monotone in mode: for the same owner, caller and
\* mask, an access permitted under a mode is permitted under the mode with
\* one more bit turned on, hence under every mode with further bits on
AccessMonotone ==
    [][\A req \in AccessCallers, mask \in MaskWords :
          Permits(inode_table[FUSE_ROOT_ID], req, mask)
              => Permits(inode_table'[FUSE_ROOT_ID], req, mask)]_vars

\* bits have been turned on, and under the mode reached a stranger is
\* permitted to write and the owner is not
AccessMonotoneSeen ==
    /\ calls > 0
    /\ Permits(inode_table[FUSE_ROOT_ID], [uid |-> 2000, gid |-> 2000], W_OK)
    /\ ~Permits(inode_table[FUSE_ROOT_ID], User, W_OK)
    /\ inode_table[FUSE_ROOT_ID].uid = User.uid

\* C24: the image mkfs writes has every bit of every inode bitmap and data
\* bitmap equal to zero and a superblock with free_blocks = block_count and
\* free_inodes = inode_count, and statfs right after the first mount of it
\* reports free equal to total
MkfsImageIsBlank ==
    LET img == Mkfs(BlockSize, BlockGroupCount)
    IN /\ \A g \in DOMAIN img.groups :
             img.groups[g].data_bitmap = {} /\ img.groups[g].inode_bitmap = {}
       /\ img.sb.free_blocks = img.sb.block_count
       /\ img.sb.free_inodes = img.sb.inode_count
       /\ (image = "mkfs" /\ calls = 0) =>
             /\ StatfsH(E).err = "OK"
             /\ StatfsH(E).data[2] = StatfsH(E).data[1]

\* C25: after the mount of an image and after every later handler call,
\* inode 1 is live and getattr(1) returns a directory
RootIsDirectory ==
    ~panicked =>
        /\ InodeExists(E, FUSE_ROOT_ID)
        /\ GetattrH(E, FUSE_ROOT_ID).err = "OK"
        /\ GetattrH(E, FUSE_ROOT_ID).attr.kind = "Directory"

\* ------------------------------------------------ the image, mount, unmount
MAGIC_NUMBER == 1297303123

\* the fields of SuperBlock::new that no handler reads: magic,
\* last_mounted_at, uid, gid, checksum
SuperBlockHeader(uid, gid) ==
    [magic |-> MAGIC_NUMBER, last_mounted_at |-> "UNIX_EPOCH", uid |-> uid, gid |-> gid,
     checksum |-> 0]

\* an init that also clears the magic
InitHeaderStamped(hdr, req) ==
    [hdr EXCEPT !.last_mounted_at = "now", !.uid = req.uid, !.gid = req.gid,
                !.magic = 0]

\* Filesystem::init
InitHeader(hdr, req) ==
    [hdr EXCEPT !.last_mounted_at = "now", !.uid = req.uid, !.gid = req.gid]

\* the block_size bytes of a bitmap, as BlockGroup::serialize_into writes them
BitmapBytes(bits, block_size) ==
    LET Bit(k, b) == IF 8 * (k - 1) + b \in bits THEN 2 ^ b ELSE 0
    IN [k \in 1 .. block_size |->
           Bit(k, 0) + Bit(k, 1) + Bit(k, 2) + Bit(k, 3)
             + Bit(k, 4) + Bit(k, 5) + Bit(k, 6) + Bit(k, 7)]
\* a reader of bitmaps that keeps the lowest bit of every byte only
BytesBitmapLow(bytes) == {8 * (k - 1) : k \in {j \in DOMAIN bytes : bytes[j] % 2 = 1}}

\* the bitmap BlockGroup::deserialize_from reads from block_size bytes
BytesBitmap(bytes) ==
    {8 * (k - 1) + b : k \in DOMAIN bytes, b \in 0 .. 7} \cap
    {p \in 0 .. (8 * Len(bytes) - 1) : (bytes[p \div 8 + 1] \div (2 ^ (p % 8))) % 2 = 1}

\* the image mkfs writes for the user who: the superblock and, per group, two
\* bitmaps of bytes 1; inode table and data blocks of the device are zero
MkfsImage(block_size, block_group_count, who) ==
    [hdr |-> SuperBlockHeader(who.uid, who.gid),
     sb |-> SuperBlockNew(block_size, block_group_count),
     groups |-> [g \in 0 .. (block_group_count - 1) |->
                    BlockGroupNew([k \in 1 .. block_size |-> 1],
                                  [k \in 1 .. block_size |-> 1])],
     inodes |-> [i \in InoIds |-> ZeroInode],
     blocks |-> [b \in BlockIds |-> ZeroBlock]]

\* Mfsr::new on the image img: the superblock, the bitmaps of its
\* block_group_count groups, next_fh = 1, then create_root
MfsrNewOn(img) ==
    CreateRoot(Engine(img.sb,
                      [g \in 0 .. (img.sb.block_group_count - 1) |->
                          BlockGroupNew(BytesBitmap(img.groups[g].data_bitmap),
                                        BytesBitmap(img.groups[g].inode_bitmap))],
                      img.inodes, img.blocks, 1))

\* the image destroy leaves: superblock and bitmaps serialized over the map
\* that holds the inode table and the data blocks
DestroyImage(e, hdr) ==
    [hdr |-> hdr,
     sb |-> e.sb,
     groups |-> [g \in DOMAIN e.groups |->
                    BlockGroupNew(BitmapBytes(e.groups[g].data_bitmap, e.sb.block_size),
                                  BitmapBytes(e.groups[g].inode_bitmap, e.sb.block_size))],
     inodes |-> e.inodes,
     blocks |-> e.blocks]

\* images a and b differ at most in the header fields of skip
SameBut(a, b, skip) ==
    /\ a.sb = b.sb
    /\ a.groups = b.groups
    /\ a.inodes = b.inodes
    /\ a.blocks = b.blocks
    /\ \A f \in DOMAIN a.hdr \ skip : a.hdr[f] = b.hdr[f]

\* mkfs by who, mount and init by req, unmount: the image left
Unmounted(who, req) ==
    LET made == MkfsImage(BlockSize, BlockGroupCount, who)
    IN DestroyImage(MfsrNewOn(made), InitHeader(made.hdr, req))

\* the mount of the model's mkfs image is Mfsr::new on the image mkfs writes
MountIsOfMkfs ==
    (image = "mkfs" /\ calls = 0 /\ ~panicked) =>
        \A who \in Callers :
            E = MfsrNewOn(MkfsImage(BlockSize, BlockGroupCount, who))

\* C26 as stated: mkfs, mount and unmount with no operation in between
\* leave the image equal to the mkfs output except for last_mounted_at and
\* the checksum of the superblock
MountUnmountKeepsImage ==
    /\ MountIsOfMkfs
    /\ calls = 0 =>
          \A who \in Callers, req \in Callers :
              SameBut(Unmounted(who, req),
                      MkfsImage(BlockSize, BlockGroupCount, who),
                      {"last_mounted_at", "checksum"})

\* C26, amended: the same, except also for the uid and gid of the superblock
MountUnmountKeepsImageButOwner ==
    /\ MountIsOfMkfs
    /\ calls = 0 =>
          \A who \in Callers, req \in Callers :
              SameBut(Unmounted(who, req),
                      MkfsImage(BlockSize, BlockGroupCount, who),
                      {"last_mounted_at", "checksum", "uid", "gid"})

\* the mkfs image is mounted and nothing was served: unmounting now leaves
\* an image that differs from the one mkfs wrote in last_mounted_at
MountUnmountSeen ==
    /\ image = "mkfs"
    /\ calls = 0
    /\ ~panicked
    /\ DestroyImage(E, InitHeader(SuperBlockHeader(0, 0), User)).hdr.last_mounted_at
         # MkfsImage(BlockSize, BlockGroupCount, Root).hdr.last_mounted_at
    /\ DestroyImage(E, InitHeader(SuperBlockHeader(0, 0), User)).groups
         = MkfsImage(BlockSize, BlockGroupCount, Root).groups

\* destroy now, then Mfsr::new on the image it leaves
Remounted == MfsrNewOn(DestroyImage(E, SuperBlockHeader(0, 0)))

\* C27: after any sequence of handler calls followed by destroy, the engine
\* constructed again on the same image has the same bitmaps in every group,
\* the same superblock counters and the same inode records, tables and data
RemountRestoresState ==
    ~panicked =>
        /\ ~Remounted.panic
        /\ Remounted.sb = E.sb
        /\ Remounted.groups = E.groups
        /\ Remounted.inodes = E.inodes
        /\ Remounted.blocks = E.blocks

\* handlers have allocated inodes and data blocks beyond the root's, and a
\* remount finds them
RemountSeen ==
    /\ ~panicked
    /\ calls >= 2
    /\ Cardinality(LiveInodes(E)) >= 3
    /\ Allocated(E) >= 2
    /\ LiveInodes(Remounted) = LiveInodes(E)

\* reply r is a success after which the inode a lookup found is not live
Gone(r, l) == (r.err = "OK" /\ ~r.e.panic /\ l.some) => ~InodeExists(r.e, l.inode.id)

\* rename without RENAME_EXCHANGE calls delete_inode on the target found when
\* its link count reaches 0
RenameDeletes(lx) ==
    lx.some /\ (lx.inode.kind = "Directory" \/ lx.inode.hard_links = 1)

\* the inode bit is not set again by the handler that called delete_inode,
\* for the requests the kernel sends
DeletedStaysDeleted ==
    ~panicked =>
        \A req \in Callers, parent \in InoIds, name \in Names :
            /\ (NotFile(E, parent) /\ NotDirectory(E, LookupInode(E, parent, name).inode.id))
                   => Gone(UnlinkH(E, req, parent, name), LookupInode(E, parent, name))
            /\ (NotFile(E, parent) /\ NotFile(E, LookupInode(E, parent, name).inode.id))
                   => Gone(RmdirH(E, req, parent, name), LookupInode(E, parent, name))
            /\ \A new_parent \in InoIds, new_name \in Names :
                   (/\ RenameSent(E, parent, name, new_parent, new_name, 0)
                    /\ RenameDeletes(LookupInode(E, new_parent, new_name)))
                   => Gone(RenameH(E, req, parent, name, new_parent, new_name, 0),
                           LookupInode(E, new_parent, new_name))

\* C28: an inode that a handler has passed to delete_inode is not live when
\* the handler returns, so that its id comes back only through the first-fit
\* scan of a later create or mkdir; this includes a rename whose source and
\* target are the same entry
NoResurrection ==
    /\ DeletedStaysDeleted
    /\ ~panicked =>
           \A req \in Callers, parent \in InoIds, name \in Names :
               (NotFile(E, parent) /\ RenameDeletes(LookupInode(E, parent, name)))
               => Gone(RenameH(E, req, parent, name, parent, name, 0),
                       LookupInode(E, parent, name))

\* SuperBlock::calculate_checksum: a hash of the serialized record; the value
\* here stands for the CRC-32, which is a function of every field
CalculateChecksum(hdr) == ((hdr.magic + hdr.uid + hdr.gid + hdr.checksum) % 251) + 1

\* SuperBlock::verify_checksum: the stored checksum is the hash of the record
\* with its checksum field zeroed
VerifyChecksum(hdr) == hdr.checksum = CalculateChecksum([hdr EXCEPT !.checksum = 0])

\* SuperBlock::deserialize_from: the record is decoded and returned; the
\* checksum test is commented out and the magic is not looked at
SuperBlockDeserializeFrom(hdr) == [ok |-> TRUE, sb |-> hdr]

\* Mfsr::new: Err when the superblock is not read, else the engine
MfsrNewResult(img) ==
    LET read == SuperBlockDeserializeFrom(img.hdr)
    IN IF read.ok THEN [ok |-> TRUE, fs |-> MfsrNewOn(img)]
       ELSE [ok |-> FALSE, fs |-> None]

\* superblocks an image may hold: the one mkfs writes, with the magic or the
\* checksum it has or another one
SuperBlocksRead ==
    UNION {{[SuperBlockHeader(who.uid, who.gid) EXCEPT !.magic = m, !.checksum = c] :
               m \in {MAGIC_NUMBER, 0},
               c \in {0, CalculateChecksum(SuperBlockHeader(who.uid, who.gid))}} :
           who \in Callers}

\* C29: mounting fails, with no engine constructed, whenever the superblock
\* read from the image has a magic other than 0x4D534653 or a checksum that
\* does not verify
MountRefusesBadSuperBlock ==
    calls = 0 =>
        \A hdr \in SuperBlocksRead :
            (hdr.magic # MAGIC_NUMBER \/ ~VerifyChecksum(hdr)) =>
                ~MfsrNewResult([MkfsImage(BlockSize, BlockGroupCount, Root)
                                   EXCEPT !.hdr = hdr]).ok

\* the engine after root has set mode m on inode ino
WithMode(e, ino, m) ==
    SetattrH(e, Root, ino, m, None, None, None, FALSE, NoHandle, NoTimes, None).e

\* modes with the SUID and SGID bits: 0o6755 and 0o6644
SetIdModes == {S_ISUID + S_ISGID + 493, S_ISUID + S_ISGID + 420}

\* setattr(ino) on engine e with a uid and possibly a gid and a mode: a
\* non-root caller asking for a uid other than the owner gets EPERM and
\* nothing changes, and never changes the owner; an owner change that
\* succeeds leaves SUID clear, a gid change by a non-root caller that
\* succeeds leaves SGID clear
ChownRules(e, req, ino, mode, uid, gid) ==
    LET r == SetattrH(e, req, ino, mode, uid, gid, None, FALSE, NoHandle, NoTimes, None)
        was == InodeAt(e, ino)
        now == InodeAt(r.e, ino)
    IN (InodeExists(e, ino) /\ ~e.panic /\ ~r.e.panic) =>
          /\ (uid # None /\ req.uid # 0) => now.uid = was.uid
          /\ (uid # None /\ req.uid # 0 /\ uid # was.uid) =>
                 (r.err = "EPERM" /\ r.e = e)
          /\ (uid # None /\ r.err = "OK" /\ now.uid # was.uid) =>
                 BitAnd(now.mode, S_ISUID) = 0
          /\ (gid # None /\ req.uid # 0 /\ r.err = "OK" /\ now.gid # was.gid) =>
                 BitAnd(now.mode, S_ISGID) = 0

\* the rules for every setattr that carries uid or gid and no mode
ChownGuardedAlone ==
    ~panicked =>
        \A req \in Callers, ino \in InoIds, m \in SetIdModes,
           uid \in {None, 0, 1000}, gid \in {None, 0, 1000} :
            /\ ChownRules(E, req, ino, None, uid, gid)
            /\ ChownRules(WithMode(E, ino, m), req, ino, None, uid, gid)

\* C30: setattr carrying a uid from a non-root caller never changes the
\* owner, and replies EPERM with the inode unchanged unless the uid asked for
\* is the current owner; a successful owner change clears SUID and a
\* successful gid change by a non-root caller clears SGID
ChownGuarded ==
    /\ ChownGuardedAlone
    /\ ~panicked =>
           \A req \in Callers, ino \in InoIds, m \in SetIdModes,
              uid \in {0, 1000}, gid \in {None, 0, 1000} :
               ChownRules(WithMode(E, ino, m), req, ino, 420, uid, gid)

\* the reference rule: F_OK permits; root may read and write, and execute
\* iff the mode has an execute bit; any other caller is judged by the
\* owner's, the group's or the others' triple, which must hold every bit of
\* the mask
AccessRule(inode_uid, inode_gid, file_mode, uid, gid, access_mask) ==
    LET triple == IF uid = inode_uid THEN Shr(file_mode, 6) % 8
                  ELSE IF gid = inode_gid THEN Shr(file_mode, 3) % 8
                  ELSE file_mode % 8
        Has(w, b) == (w \div b) % 2 = 1
    IN IF access_mask = F_OK THEN TRUE
       ELSE IF uid = 0
       THEN Has(access_mask, X_OK) =>
               \E b \in {S_IXUSR, S_IXGRP, S_IXOTH} : Has(file_mode, b)
       ELSE \A b \in {X_OK, W_OK, R_OK} : Has(access_mask, b) => Has(triple, b)

\* the masks that are subsets of R_OK | W_OK | X_OK
RwxMasks == 0 .. (R_OK + W_OK + X_OK)

WithGroup(e, ino, gid) ==
    SetattrH(e, Root, ino, None, None, gid, None, FALSE, NoHandle, NoTimes, None).e

\* open on engine e answers as the access check on the inode's uid, gid and
\* mode says, for the flags parse_flags accepts
OpenAsAccess(e, req, ino, flags) ==
    LET f == ParseFlags(flags)
        i == InodeAt(e, ino)
    IN (~e.panic /\ NotDirectory(e, ino) /\ InodeExists(e, ino) /\ f.err = "OK") =>
          ((OpenH(e, req, ino, flags).err = "OK")
           <=> CheckAccess(i.uid, i.gid, i.mode, req.uid, req.gid, f.mask))

\* the same for opendir
OpendirAsAccess(e, req, ino, flags) ==
    LET f == ParseFlags(flags)
        i == InodeAt(e, ino)
    IN (~e.panic /\ NotFile(e, ino) /\ InodeExists(e, ino) /\ f.err = "OK") =>
          ((OpendirH(e, req, ino, flags).err = "OK")
           <=> CheckAccess(i.uid, i.gid, i.mode, req.uid, req.gid, f.mask))

\* groups given to an inode and modes whose group and other triples differ:
\* 0o640 and 0o604
OtherGroups == {1000, 2000}

SplitModes == {416, 388}

\* opendir grants a handle exactly when the access check permits
OpendirFollowsAccess ==
    ~panicked =>
        \A req \in AccessCallers, ino \in InoIds, flags \in FlagWords,
           gid \in OtherGroups, m \in SplitModes :
            /\ OpendirAsAccess(E, req, ino, flags)
            /\ OpendirAsAccess(WithMode(WithGroup(E, ino, gid), ino, m), req, ino, flags)

\* C32: open grants a handle exactly when the access check, applied to the
\* inode's uid, gid and mode against the caller's uid and gid, permits the
\* mask of the flags: a non-owner of the inode's group is judged by the
\* group triple, one of another group by the other triple
OpenFollowsAccess ==
    ~panicked =>
        \A req \in AccessCallers, ino \in InoIds, flags \in FlagWords,
           gid \in OtherGroups, m \in SplitModes :
            /\ OpenAsAccess(E, req, ino, flags)
            /\ OpenAsAccess(WithMode(WithGroup(E, ino, gid), ino, m), req, ino, flags)

\* reply r of a handler that deleted the inode lookup l found in engine e:
\* the inode bit is clear, free_inodes is one more, the bit of every data
\* block the inode referenced is clear and no other data bit was cleared
DeletedClean(e, r, l) ==
    (r.err = "OK" /\ ~r.e.panic /\ l.some) =>
        /\ ~InodeExists(r.e, l.inode.id)
        /\ r.e.sb.free_inodes = e.sb.free_inodes + 1
        /\ BlocksInUse(r.e) \cap BlocksReferenced(e, l.inode) = {}
        /\ (BlocksInUse(e) \ BlocksReferenced(e, l.inode)) \subseteq BlocksInUse(r.e)

\* the deletions of the three handlers, for the inodes that satisfy Small
DeletionsClean(Small(_)) ==
    ~panicked =>
        \A req \in Callers, parent \in InoIds, name \in Names :
            LET l == LookupInode(E, parent, name)
            IN (NotFile(E, parent) /\ l.some /\ Small(l.inode)) =>
                /\ NotDirectory(E, l.inode.id) =>
                       DeletedClean(E, UnlinkH(E, req, parent, name), l)
                /\ NotFile(E, l.inode.id) =>
                       DeletedClean(E, RmdirH(E, req, parent, name), l)
                /\ \A from \in InoIds, other \in Names :
                       (/\ RenameSent(E, from, other, parent, name, 0)
                        /\ RenameDeletes(l))
                       => DeletedClean(E, RenameH(E, req, from, other, parent, name, 0), l)

NoIndirect(inode) == inode.indirect_pointer = 0

AnyInode(inode) == TRUE

\* the deletions of inodes that have no indirect block
DeleteFreesDirectBlocks == DeletionsClean(NoIndirect)

\* C33: deleting an inode through unlink, rmdir or a rename that replaces it
\* clears its inode bit, increments free_inodes once and clears the
\* data-bitmap bit of every block it referenced (direct pointers, the
\* indirect block and its slots), and of no other block
DeleteFreesReferencedBlocks == DeletionsClean(AnyInode)

\* the pointer of logical block i of an inode, 0 for a hole
LogicalPointer(e, inode, i) ==
    IF i < DirectPointers THEN inode.direct_pointers[i + 1]
    ELSE IF inode.indirect_pointer = 0 THEN 0
    ELSE PointersOf(BlockAt(e, inode.indirect_pointer)).p[i - DirectPointers + 1]

\* the first direct block, the first and the last block of the indirect range
HoleBlocks == {0, DirectPointers, LastBlock}

\* a read of one logical block that is a hole completes with zero bytes, in
\* the builds of Bs and for the logical blocks of Ks
HolesRead(Bs, Ks) ==
    ~panicked =>
        \A ino \in LiveFiles(E), k \in Ks, size \in {1, BlockSize}, build \in Bs :
            LET r == ReadH(E, ino, Handle(TRUE, FALSE), k * BlockSize, size, build)
            IN (k <= LastBlock => LogicalPointer(E, InodeAt(E, ino), k) = 0) =>
                  /\ ~r.e.panic
                  /\ r.err = "OK"
                  /\ \A j \in DOMAIN r.data : r.data[j] = 0

\* without overflow checks, within the blocks a file can have
HolesReadWrapping == HolesRead({"release"}, HoleBlocks)

\* without overflow checks, one block past the indirect pointer array
ReadPastPointerArray == HolesRead({"release"}, {LastBlock + 1})

\* C34: a read over a logical block whose pointer is zero, in the direct or
\* the indirect range, completes and yields zero bytes for that block; it
\* neither addresses data block 0 nor indexes past the indirect pointer
\* array nor fails
HolesReadAsZeros == HolesRead(Builds, HoleBlocks)

\* reply r of an insertion of name into directory parent of engine e: the
\* table read back is the one before with name added, and lookup finds name
ReadsBack(e, r, parent, name) ==
    LET old == GetDentry(e, InodeAt(e, parent))
        new == GetDentry(r.e, InodeAt(r.e, parent))
    IN (r.err = "OK" /\ ~r.e.panic /\ ~old.panic) =>
          /\ ~new.panic
          /\ DOMAIN new.d.entries = DOMAIN old.d.entries \cup {name}
          /\ \A n \in DOMAIN old.d.entries : new.d.entries[n] = old.d.entries[n]
          /\ LookupInode(r.e, parent, name).some

\* the insertions after which the table satisfies Fits
InsertionsReadBack(Fits(_, _)) ==
    ~panicked =>
        \A req \in Callers, parent \in LiveDirectories(E), name \in Names :
            /\ \A mode \in FileModes, flags \in CreateFlags :
                   LET r == CreateH(E, req, parent, name, mode, flags)
                   IN Fits(r.e, parent) => ReadsBack(E, r, parent, name)
            /\ \A mode \in DirModes :
                   LET r == MkdirH(E, req, parent, name, mode)
                   IN Fits(r.e, parent) => ReadsBack(E, r, parent, name)

\* the table of directory d was written into one data block
InOneBlock(e, d) == NonZeroCount(InodeAt(e, d).direct_pointers) <= 1

AnyTable(e, d) == TRUE

\* a directory whose table fits one block is read back as written
OneBlockDirectoryReadsBack == InsertionsReadBack(InOneBlock)

\* C35: after insertions into a directory whose serialized table spans one
\* or more data blocks, reading the directory back returns the map that was
\* written: lookup finds every inserted name
GrownDirectoryReadsBack == InsertionsReadBack(AnyTable)

\* ------------------------------------------------- the timestamps of setattr
\* The four timestamps of an inode, left out of the records above, as
\* tokens: "before" (the value at mount), "now" (current_timestamp() or
\* TimeOrNow::Now) and "atime", "ctime", "crtime", "mtime" (the time the
\* request gave for that attribute).
Unstamped ==
    [last_accessed |-> "before", last_modified |-> "before",
     last_metadata_changed |-> "before", creation_time |-> "before"]

\* the assignments setattr makes for atime, ctime, crtime and mtime, in the
\* order of the source; times is <<atime, ctime, crtime, mtime>>
Stamped(s, times) ==
    LET a == IF times[1] = None THEN s
             ELSE [s EXCEPT !.last_accessed = IF times[1] = 0 THEN "now" ELSE "atime",
                            !.last_metadata_changed = "now"]
        c == IF times[2] = None THEN a
             ELSE [a EXCEPT !.last_modified = "ctime",
                            !.last_metadata_changed = "now"]
        cr == IF times[3] = None THEN c
              ELSE [c EXCEPT !.creation_time = "crtime",
                             !.last_metadata_changed = "now"]
    IN IF times[4] = None THEN cr
       ELSE [cr EXCEPT !.last_modified = IF times[4] = 0 THEN "now" ELSE "mtime",
                       !.last_metadata_changed = "now"]

\* the time attributes a request carries: one or more of the four, atime and
\* mtime possibly as TimeOrNow::Now
TimeArgs ==
    {t \in [1 .. 4 -> {None, 0, 1}] :
        /\ t[2] # 0
        /\ t[3] # 0
        /\ \E k \in 1 .. 4 : t[k] # None}

\* the stamps of the root inode, kept in its record
StampsOf(inode) ==
    [f \in DOMAIN Unstamped |-> inode[f]]

\* a mounted image whose root inode carries its timestamps, owned by o
InitTimes ==
    /\ image = "zero"
    /\ \E o \in Owners :
          LET e == MfsrNew(ImageOf("zero"))
          IN Holds(WriteInode(e, [InodeAt(e, FUSE_ROOT_ID) EXCEPT !.uid = o.uid,
                                                                   !.gid = o.gid]
                                 @@ Unstamped))
    /\ panicked = FALSE
    /\ calls = 0

\* setattr(1) with time attributes only, replied to with success: the inode
\* written carries the stamps assigned
SetattrTimes(req, times) ==
    LET r == SetattrH(E, req, FUSE_ROOT_ID, None, None, None, None, FALSE, NoHandle,
                      times, None)
        inode == InodeAt(r.e, FUSE_ROOT_ID)
    IN /\ r.err = "OK"
       /\ Serve([r EXCEPT !.e.inodes[FUSE_ROOT_ID] =
                    [f \in DOMAIN inode |->
                        IF f \in DOMAIN Unstamped
                        THEN Stamped(StampsOf(inode), times)[f] ELSE inode[f]]])

NextTimes == \E req \in Callers, times \in TimeArgs : SetattrTimes(req, times)

SpecTimes == InitTimes /\ [][NextTimes]_vars

\* the timestamp that belongs to time attribute k
StampOfAttr ==
    <<"last_accessed", "last_metadata_changed", "creation_time", "last_modified">>

\* a successful setattr(1) with the time attributes of Ts sets the
\* timestamp of each attribute carried and the metadata-changed time and
\* leaves the other timestamps as they were
TimesSet(Ts) ==
    ~panicked =>
        \A req \in Callers, times \in Ts :
            LET r == SetattrH(E, req, FUSE_ROOT_ID, None, None, None, None, FALSE,
                              NoHandle, times, None)
                old == StampsOf(inode_table[FUSE_ROOT_ID])
                new == Stamped(old, times)
            IN r.err = "OK" =>
                  /\ new.last_metadata_changed = "now"
                  /\ \A k \in 1 .. 4 :
                        IF times[k] # None
                        THEN new[StampOfAttr[k]] \in
                                {"now", <<"atime", "ctime", "crtime", "mtime">>[k]}
                        ELSE \/ StampOfAttr[k] = "last_metadata_changed"
                             \/ new[StampOfAttr[k]] = old[StampOfAttr[k]]

\* the requests that carry no ctime
TimesSetButCtime == TimesSet({t \in TimeArgs : t[2] = None})

\* C36: a successful setattr that carries atime, mtime, ctime or crtime sets
\* the timestamp of each attribute carried and the metadata-changed time and
\* leaves the other timestamps as they were; a setattr with ctime only
\* leaves the modified time as it was
TimesSetOneByOne == TimesSet(TimeArgs)

\* group 0 with the first n bits of both bitmaps set, as after n allocations
FilledTo(e, n) ==
    [e EXCEPT !.groups[0] = BlockGroupNew(0 .. (n - 1), 0 .. (n - 1))]

\* the id a scan returned decomposes to the in-range position pos of group 0,
\* and setting that bit makes the scan return another id
Decomposes(e, id, off, pos, which, Scan(_)) ==
    /\ id # 0
    /\ ~OffsetPanics(e, off)
    /\ off.group = 0
    /\ BitPos(off) = pos
    /\ ~OffsetPanics(e, off) =>
           Scan([e EXCEPT !.groups[off.group][which] = @ \cup {BitPos(off)}]) # id

\* the scans and the decompositions agree when the first free bit is one of
\* Positions
AllocatorsAgreeAt(Positions) ==
    calls = 0 =>
        \A n \in Positions :
            LET e == FilledTo(E, n)
            IN /\ Decomposes(e, NextInodeId(e), InodeBitmapOffset(e.sb, NextInodeId(e)),
                             n, "inode_bitmap", NextInodeId)
               /\ Decomposes(e, NextFreeDataBlock(e),
                             DataBlockBitmapOffset(e.sb, NextFreeDataBlock(e)),
                             n, "data_bitmap", NextFreeDataBlock)

\* for the ids below block_size
AllocatorsAgreeBelowBlockSize == AllocatorsAgreeAt(0 .. (BlockSize - 2))

\* C37: for every bitmap with a free bit, the id next_inode_id (or
\* next_free_data_block) returns is non-zero and inode_bitmap_offset (or
\* data_block_bitmap_offset) takes it to the in-range position of the first
\* zero bit, so that marking it makes the next scan return another id, up to
\* the last bit of the group's bitmap
AllocatorsAgree == AllocatorsAgreeAt(0 .. (BitmapBits - 1))

\* the number of pointers of an inode that hold block b: direct pointers,
\* the indirect pointer and the slots of the indirect block
PointersTo(e, inode, b) ==
    LET p == PointersOf(BlockAt(e, inode.indirect_pointer)).p
    IN Cardinality({j \in DOMAIN inode.direct_pointers : inode.direct_pointers[j] = b})
       + (IF inode.indirect_pointer = b THEN 1 ELSE 0)
       + (IF inode.indirect_pointer = 0 THEN 0
          ELSE Cardinality({j \in DOMAIN p : p[j] = b}))

\* the live inodes that reference block b
Referrers(e, b) == {i \in LiveInodes(e) : b \in BlocksReferenced(e, InodeAt(e, i))}

\* every data block a live inode of engine e references has its data-bitmap
\* bit set and is held by exactly one pointer of exactly one live inode
BlocksOwned(e) ==
    ~e.panic =>
        \A i \in LiveInodes(e) :
            \A b \in BlocksReferenced(e, InodeAt(e, i)) :
                /\ b \in BlocksInUse(e)
                /\ Referrers(e, b) = {i}
                /\ PointersTo(e, InodeAt(e, i), b) = 1

\* the states reached within the bounds on calls and allocations
BlocksOwnedWithinBounds == Returned => BlocksOwned(E)

\* C38: after every handler return, every data block a live inode references
\* has its data-bitmap bit set and is held by exactly one pointer of exactly
\* one live inode; here also after a write to the last logical block of a
\* file and an unlink that follow the calls served
ReferencedBlocksAreOwned ==
    Returned =>
        /\ BlocksOwned(E)
        /\ \A req \in Callers, ino \in LiveFiles(E), parent \in LiveDirectories(E),
              name \in Names :
               LET w == WriteH(E, ino, Handle(FALSE, TRUE), LastBlock * BlockSize, Fill(2))
                   l == LookupInode(w.e, parent, name)
                   u == UnlinkH(w.e, req, parent, name)
               IN (/\ w.err = "OK" /\ ~w.e.panic
                   /\ l.some /\ l.inode.kind = "RegularFile"
                   /\ u.err = "OK") => BlocksOwned(u.e)

\* the inodes named along lookup paths from the root: the root and what
\* Under reaches from it through the tables of live directories
Reachable(e) == Under(e, {FUSE_ROOT_ID}, MaxIno)

\* every live inode of engine e is the root or reached from it
AllReachable(e) == ~e.panic => LiveInodes(e) \subseteq Reachable(e)

\* C39: after every handler return, every live inode other than the root is
\* named by an entry of a live directory that is itself reachable from the
\* root
LiveInodesReachable == Returned => AllReachable(E)

\* the table of directory d in engine e, unreadable as the empty one
TableOf(e, d) ==
    LET g == GetDentry(e, InodeAt(e, d))
    IN IF g.panic THEN NoEntries ELSE g.d.entries

\* directory d maps every name outside skip as it did before reply r
KeptBut(e, r, d, skip) ==
    /\ ~GetDentry(r.e, InodeAt(r.e, d)).panic
    /\ \A n \in DOMAIN TableOf(e, d) \ skip :
           /\ n \in DOMAIN TableOf(r.e, d)
           /\ TableOf(r.e, d)[n] = TableOf(e, d)[n]
    /\ DOMAIN TableOf(r.e, d) \subseteq DOMAIN TableOf(e, d) \cup skip

\* the successful renames without RENAME_EXCHANGE that satisfy When keep
\* every entry they do not name
RenamesKeep(When(_, _, _)) ==
    ~panicked =>
        \A req \in Callers, parent \in LiveDirectories(E), name \in Names,
           new_parent \in LiveDirectories(E), new_name \in Names :
            LET r == RenameH(E, req, parent, name, new_parent, new_name, 0)
            IN (/\ RenameSent(E, parent, name, new_parent, new_name, 0)
                /\ ~GetDentry(E, InodeAt(E, parent)).panic
                /\ ~GetDentry(E, InodeAt(E, new_parent)).panic
                /\ r.err = "OK" /\ ~r.e.panic
                /\ parent \in LiveDirectories(r.e)
                /\ new_parent \in LiveDirectories(r.e)
                /\ When(r.e, parent, new_parent)) =>
                  IF parent = new_parent
                  THEN KeptBut(E, r, parent, {name, new_name})
                  ELSE /\ KeptBut(E, r, parent, {name})
                       /\ KeptBut(E, r, new_parent, {new_name})

\* the tables of both directories were written into one block each
BothInOneBlock(e, parent, new_parent) ==
    InOneBlock(e, parent) /\ InOneBlock(e, new_parent)

AnyTables(e, parent, new_parent) == TRUE

\* the renames that leave both tables in one block
RenameKeepsSmallTables == RenamesKeep(BothInOneBlock)

\* C40: a successful rename(parent, name, new_parent, new_name, 0) changes
\* only the entry name of parent and the entry new_name of new_parent: every
\* other entry of either directory, an entry new_name of another parent
\* included, maps to the same inode as before
RenameTouchesTwoEntries == RenamesKeep(AnyTables)

====
